---- MODULE Spec2Model ----
(***************************************************************************)
(* Model of the ST7789 clock demo: the failsafe supervisor (failsafe.cpp), *)
(* the bit-banged renderer driver (clock.cpp) and the bulk-transfer test   *)
(* patterns (test_display.cpp).                                            *)
(*                                                                         *)
(* Spec       : the supervisor loop of failsafe.cpp main(), its signal     *)
(*              handler, the child process it forks and the wall clock.    *)
(* FairSpec   : Spec with the scheduling the operating system gives the    *)
(*              supervisor and with children that terminate.               *)
(* SpecDriver : the pixel path: painting the surface, pushFramebuffer, the *)
(*              supervisor's error fill and the test patterns.             *)
(***************************************************************************)
EXTENDS Integers, Sequences, FiniteSets, TLC

VARIABLES
    \* ---- failsafe.cpp: globals and the locals of main()
    pc,                  \* next statement of main() to execute
    running,             \* volatile bool running (line 34)
    child_pid,           \* pid_t child_pid (line 35)
    fork_ret,            \* value returned by fork(), not yet stored (line 287)
    result,              \* pid_t result (line 298)
    status,              \* int status filled by waitpid (lines 297-298)
    restart_count,       \* int restart_count (line 279)
    first_restart_time,  \* time_t first_restart_time (line 282)
    spi_fd,              \* int spi_fd of display_error_screen (line 142)
    \* ---- environment: the clock and the forked child
    now,                 \* what time(nullptr) returns, in seconds
    child,               \* "none" | "running" | "zombie"
    live_pid,            \* pid of the child that is running or a zombie
    child_status,        \* wait status of a zombie
    child_sigterm,       \* SIGTERM was delivered to the running child
    \* ---- history (never read by the program)
    exit_times,          \* times of the handled abnormal exits inside the window
    handled,             \* number of abnormal exits handled (saturating)
    gap_profile,         \* how far apart the handled abnormal exits were
    all_abnormal,        \* every child that terminated so far did so abnormally
    error_calls,         \* invocations of display_error_screen (saturating)
    stop_snap,           \* Restart Ledger when the stop signal hit waitpid
    \* ---- the pixel path (clock.cpp, failsafe.cpp, test_display.cpp)
    framebuffer,         \* uint16_t framebuffer[] (clock.cpp line 54)
    wire,                \* transfers the panel received in the last operation
    drv_op,              \* the operation that produced wire
    \* ---- the panel and the renderer child (clock.cpp main)
    panel,               \* the panel controller, see PanelOff
    trace,               \* events of the last reset / initialization / error
                         \* screen invocation
    prev_trace,          \* events of the initialization invoked before it
    init_run,            \* initializations invoked in a row (at most 2)
    r_pc,                \* next statement of the renderer's main()
    r_i,                 \* events the renderer's current call has emitted
    gpio_exported,       \* the supervisor has exported its GPIO lines
    panel_at_error,      \* the panel as display_error_screen found it
    \* ---- the link transport, one operation in both realizations
    link_in,             \* the logical input of the operation
    bb,                  \* line events of the bit-banged realization
    bulk,                \* line events of the bulk-transfer realization
    \* ---- clock.cpp: the globals and the locals of main()
    r_running,           \* volatile bool running (line 53)
    last_second,         \* time_t last_second (line 315)
    r_now,               \* time_t now of the current iteration (line 318)
    refreshes            \* history: the seconds for which a refresh began

supVars   == <<pc, running, child_pid, fork_ret, result, status,
               restart_count, first_restart_time, spi_fd>>
envVars   == <<now, child, live_pid, child_status, child_sigterm>>
ghostVars == <<exit_times, handled, gap_profile, all_abnormal, error_calls,
               stop_snap>>
drvVars   == <<framebuffer, wire, drv_op>>
panelVars == <<panel, trace, prev_trace, init_run, r_pc, r_i, gpio_exported,
               panel_at_error>>
linkVars  == <<link_in, bb, bulk>>
clkVars   == <<r_running, last_second, r_now, refreshes>>
vars      == <<supVars, envVars, ghostVars, drvVars, panelVars, linkVars,
               clkVars>>

----------------------------------------------------------------------------
(* Configuration of failsafe.cpp                                           *)

max_restarts   == 10
restart_window == 60
RecoverySleep  == 2
CircuitSleep   == 10

(* Seconds the wall clock advances between the start of a child and the    *)
(* moment waitpid reports its termination: an immediate crash, a run that  *)
(* ends late in the current window, and a run that outlasts the window     *)
(* once the recovery cool-down is added.                                   *)
RunTimes == {0, restart_window - 12, restart_window - 1}

(* time_t values are offsets from an epoch.  The program uses them only in *)
(* the test of line 330 (a difference, and the sentinel 0), so the clock   *)
(* is kept relative to an epoch that slides forward: once now would pass   *)
(* Horizon every stored time is moved back by the same amount, and a time  *)
(* that is already more than restart_window old stays that old.           *)
Epoch   == 1
Horizon == Epoch + restart_window + 1

Shift(t, k) == IF t = 0 THEN 0 ELSE IF t - k < Epoch THEN Epoch ELSE t - k

NoSnap == [count |-> -1, first |-> -1]

Tick(d) ==
    LET k == IF now + d > Horizon THEN now + d - Horizon ELSE 0 IN
    /\ now' = now + d - k
    /\ first_restart_time' = Shift(first_restart_time, k)
    /\ exit_times' = [i \in DOMAIN exit_times |-> Shift(exit_times[i], k)]
    /\ stop_snap' = IF stop_snap = NoSnap THEN NoSnap
                    ELSE [stop_snap EXCEPT !.first = Shift(@, k)]

----------------------------------------------------------------------------
(* Wait statuses                                                           *)

NoStatus == [kind |-> "none", code |-> 0]
Exited(c)   == [kind |-> "exited", code |-> c]
Signaled(s) == [kind |-> "signaled", code |-> s]
SIGSEGV == "SIGSEGV"
SIGTERM == "SIGTERM"
Statuses == {Exited(0), Exited(1), Signaled(SIGSEGV), Signaled(SIGTERM)}

WIFEXITED(st)   == st.kind = "exited"
WIFSIGNALED(st) == st.kind = "signaled"
WEXITSTATUS(st) == st.code

Abnormal(st) == (WIFEXITED(st) /\ WEXITSTATUS(st) # 0) \/ WIFSIGNALED(st)

(* fork returns a pid that differs from the previous child's. *)
FreshPid == IF child_pid = 1 THEN 2 ELSE 1

SPI_FD == 3

----------------------------------------------------------------------------
(* The panel and its wire protocol                                         *)

(* Panel sizes.  The sources set 320 x 240; the model keeps the code and   *)
(* scales the panel: DISPLAY_* for clock.cpp and failsafe.cpp, TEST_* for  *)
(* test_display.cpp, whose color bars need a width of at least 8.          *)
DISPLAY_WIDTH       == 3
DISPLAY_HEIGHT      == 2
TEST_DISPLAY_WIDTH  == 8
TEST_DISPLAY_HEIGHT == 2

ST7789_CASET == 42     \* 0x2A
ST7789_RASET == 43     \* 0x2B
ST7789_RAMWR == 44     \* 0x2C

COLOR_BLACK   == 0
COLOR_WHITE   == 65535  \* 0xFFFF
COLOR_RED     == 63488  \* 0xF800
COLOR_GREEN   == 2016   \* 0x07E0
COLOR_BLUE    == 31     \* 0x001F
COLOR_CYAN    == 2047   \* 0x07FF
COLOR_MAGENTA == 63519  \* 0xF81F
COLOR_YELLOW  == 65504  \* 0xFFE0

U8(v)  == v % 256
U16(v) == v % 65536
Hi(v)  == U8(v \div 256)      \* (uint8_t)(v >> 8)
Lo(v)  == v % 256             \* v & 0xFF

Pow2(i) == IF i = 0 THEN 1 ELSE IF i = 1 THEN 2 ELSE IF i = 2 THEN 4
           ELSE IF i = 3 THEN 8 ELSE IF i = 4 THEN 16 ELSE IF i = 5 THEN 32
           ELSE IF i = 6 THEN 64 ELSE 128

(* spiWriteByte, clock.cpp lines 67-83: for i = 7 .. 0 the clock goes low, *)
(* the data line takes bit i, the clock goes high.  The value is the       *)
(* sequence of data-line levels at the eight rising edges.                 *)
spiWriteByte(byte) == [k \in 1..8 |-> (byte \div Pow2(8 - k)) % 2]

spi_ioc_transfer_LsbFirst(byte) == [k \in 1..8 |-> (byte \div Pow2(k - 1)) % 2]

(* The SPI controller of spidev (mode 0, 8 bits per word) shifts each byte *)
(* of tx_buf out most significant bit first: failsafe.cpp lines 116-121.   *)
spi_ioc_transfer(byte) == [k \in 1..8 |-> (byte \div Pow2(8 - k)) % 2]

(* The panel shifts the sampled levels into a byte, first level highest.   *)
RECURSIVE SampledByte(_)
SampledByte(bits) ==
    IF bits = <<>> THEN 0
    ELSE 2 * SampledByte(SubSeq(bits, 1, Len(bits) - 1)) + bits[Len(bits)]

DC_COMMAND == 0
DC_DATA    == 1

(* ---- clock.cpp: bit-banged transport ---- *)

(* writeCommand, lines 85-90 *)
writeCommand(cmd) == <<[dc |-> DC_COMMAND, bits |-> spiWriteByte(U8(cmd))]>>

(* writeData, lines 92-97 *)
writeData(data) == <<[dc |-> DC_DATA, bits |-> spiWriteByte(U8(data))]>>

(* setAddrWindow, lines 183-197 *)
setAddrWindow(x0, y0, x1, y1) ==
    writeCommand(ST7789_CASET)
        \o writeData(x0 \div 256) \o writeData(x0 % 256)
        \o writeData(x1 \div 256) \o writeData(x1 % 256)
    \o writeCommand(ST7789_RASET)
        \o writeData(y0 \div 256) \o writeData(y0 % 256)
        \o writeData(y1 \div 256) \o writeData(y1 % 256)
    \o writeCommand(ST7789_RAMWR)

RECURSIVE PushLoop_LowByteFirst(_, _, _)
PushLoop_LowByteFirst(fb, i, n) ==
    IF i >= n THEN <<>>
    ELSE LET pixel == fb[i] IN
         <<[dc |-> DC_DATA, bits |-> spiWriteByte(Lo(pixel))],
           [dc |-> DC_DATA, bits |-> spiWriteByte(Hi(pixel))]>>
         \o PushLoop_LowByteFirst(fb, i + 1, n)

(* The loop of pushFramebuffer, lines 215-219 *)
RECURSIVE PushLoop(_, _, _)
PushLoop(fb, i, n) ==
    IF i >= n THEN <<>>
    ELSE LET pixel == fb[i] IN
         <<[dc |-> DC_DATA, bits |-> spiWriteByte(Hi(pixel))],
           [dc |-> DC_DATA, bits |-> spiWriteByte(Lo(pixel))]>>
         \o PushLoop(fb, i + 1, n)

pushFramebuffer_OnePixelShort(fb, width, height) ==
    setAddrWindow(0, 0, U16(width - 1), U16(height - 1))
        \o PushLoop(fb, 0, width * height - 1)

(* pushFramebuffer, lines 209-222 *)
pushFramebuffer(fb, width, height) ==
    setAddrWindow(0, 0, U16(width - 1), U16(height - 1))
        \o PushLoop(fb, 0, width * height)

(* draw_rect, lines 231-237 *)
draw_rect(fb, x, y, w, h, color) ==
    [k \in DOMAIN fb |->
        LET i == k % DISPLAY_WIDTH
            j == k \div DISPLAY_WIDTH
        IN IF /\ y <= j /\ j < y + h /\ j < DISPLAY_HEIGHT
              /\ x <= i /\ i < x + w /\ i < DISPLAY_WIDTH
           THEN color ELSE fb[k]]

(* The store of draw_char, lines 273-277 *)
draw_pixel(fb, px, py, color) ==
    IF px < DISPLAY_WIDTH /\ py < DISPLAY_HEIGHT
    THEN [fb EXCEPT ![py * DISPLAY_WIDTH + px] = color]
    ELSE fb

(* main draws the time in cyan in the upper part of the surface and the    *)
(* date in yellow below it: lines 336-348.                                 *)
TextColor(py) == IF 2 * py < DISPLAY_HEIGHT THEN COLOR_CYAN ELSE COLOR_YELLOW

(* ---- failsafe.cpp: bulk transport ---- *)

(* spi_write_command, lines 114-122 *)
spi_write_command(cmd) ==
    <<[dc |-> DC_COMMAND, bits |-> spi_ioc_transfer(U8(cmd))]>>

(* spi_write_data, lines 124-132 *)
spi_write_data(data) ==
    [k \in 1..Len(data) |-> [dc |-> DC_DATA, bits |-> spi_ioc_transfer(data[k])]]

(* spi_write_data_u16, lines 134-137 *)
spi_write_data_u16(data) == spi_write_data(<<Hi(U16(data)), Lo(U16(data))>>)

(* The fill loop of display_error_screen, lines 208-210 *)
RECURSIVE FillLoop(_, _, _)
FillLoop(color, i, n) ==
    IF i >= n THEN <<>>
    ELSE spi_write_data_u16(color) \o FillLoop(color, i + 1, n)

(* display_error_screen, lines 194-210: the red fill *)
ErrorFillStream ==
    spi_write_command(ST7789_CASET)
        \o spi_write_data_u16(0) \o spi_write_data_u16(DISPLAY_WIDTH - 1)
    \o spi_write_command(ST7789_RASET)
        \o spi_write_data_u16(0) \o spi_write_data_u16(DISPLAY_HEIGHT - 1)
    \o spi_write_command(ST7789_RAMWR)
    \o FillLoop(COLOR_RED, 0, DISPLAY_WIDTH * DISPLAY_HEIGHT)

(* ---- test_display.cpp: its spi_write_* (lines 85-108) are those of      *)
(* failsafe.cpp with the descriptor in a global ---- *)

(* set_window, lines 160-170 *)
set_window(x0, y0, x1, y1) ==
    spi_write_command(ST7789_CASET)
        \o spi_write_data_u16(x0) \o spi_write_data_u16(x1)
    \o spi_write_command(ST7789_RASET)
        \o spi_write_data_u16(y0) \o spi_write_data_u16(y1)
    \o spi_write_command(ST7789_RAMWR)

(* The nested loops of the patterns: for y, for x, spi_write_data_u16 *)
RECURSIVE PatternLoop(_, _, _)
PatternLoop(color, k, n) ==
    IF k >= n THEN <<>>
    ELSE spi_write_data_u16(color[k \div TEST_DISPLAY_WIDTH,
                                  k % TEST_DISPLAY_WIDTH])
         \o PatternLoop(color, k + 1, n)

TestRows == 0..(TEST_DISPLAY_HEIGHT - 1)
TestCols == 0..(TEST_DISPLAY_WIDTH - 1)

(* fill_screen, lines 172-179 *)
fill_screen(color) ==
    set_window(0, 0, TEST_DISPLAY_WIDTH - 1, TEST_DISPLAY_HEIGHT - 1)
        \o FillLoop(color, 0, TEST_DISPLAY_WIDTH * TEST_DISPLAY_HEIGHT)

(* draw_gradient, lines 181-194 *)
GradientColor(x, y) ==
    LET r == U8((x * 31) \div TEST_DISPLAY_WIDTH)
        g == U8((y * 63) \div TEST_DISPLAY_HEIGHT)
        b == U8(((x + y) * 31) \div (TEST_DISPLAY_WIDTH + TEST_DISPLAY_HEIGHT))
    IN U16(r * 2048 + g * 32 + b)   \* (r << 11) | (g << 5) | b, fields disjoint

draw_gradient ==
    set_window(0, 0, TEST_DISPLAY_WIDTH - 1, TEST_DISPLAY_HEIGHT - 1)
        \o PatternLoop([y \in TestRows, x \in TestCols |-> GradientColor(x, y)],
                       0, TEST_DISPLAY_WIDTH * TEST_DISPLAY_HEIGHT)

(* draw_color_bars, lines 196-212 *)
BarColors == <<COLOR_WHITE, COLOR_YELLOW, COLOR_CYAN, COLOR_GREEN,
               COLOR_MAGENTA, COLOR_RED, COLOR_BLUE, COLOR_BLACK>>

BarColor(x) ==
    LET bar_width == TEST_DISPLAY_WIDTH \div 8
        bar_index == x \div bar_width
    IN BarColors[(IF bar_index >= 8 THEN 7 ELSE bar_index) + 1]

draw_color_bars ==
    set_window(0, 0, TEST_DISPLAY_WIDTH - 1, TEST_DISPLAY_HEIGHT - 1)
        \o PatternLoop([y \in TestRows, x \in TestCols |-> BarColor(x)],
                       0, TEST_DISPLAY_WIDTH * TEST_DISPLAY_HEIGHT)

(* draw_checkerboard, lines 214-224; main passes 40, 20, 10 and 5 on the   *)
(* 320 x 240 panel (line 359), scaled here with the panel.                 *)
SquareSizes == {1, 2}

CheckerColor(x, y, square_size) ==
    IF ((x \div square_size) + (y \div square_size)) % 2 = 0
    THEN COLOR_WHITE ELSE COLOR_BLACK

draw_checkerboard(square_size) ==
    set_window(0, 0, TEST_DISPLAY_WIDTH - 1, TEST_DISPLAY_HEIGHT - 1)
        \o PatternLoop([y \in TestRows, x \in TestCols |->
                           CheckerColor(x, y, square_size)],
                       0, TEST_DISPLAY_WIDTH * TEST_DISPLAY_HEIGHT)

(* The colors main passes to fill_screen, test_display.cpp lines 320-329   *)
FillColors == {COLOR_RED, COLOR_GREEN, COLOR_BLUE, COLOR_WHITE, COLOR_BLACK}

BlankSurface == [k \in 0..(DISPLAY_WIDTH * DISPLAY_HEIGHT - 1) |-> COLOR_BLACK]

----------------------------------------------------------------------------
(* The initialization procedure and the panel that receives it             *)

ST7789_SWRESET == 1    \* 0x01
ST7789_SLPOUT  == 17   \* 0x11
ST7789_NORON   == 19   \* 0x13
ST7789_INVON   == 33   \* 0x21
ST7789_DISPON  == 41   \* 0x29
ST7789_MADCTL  == 54   \* 0x36
ST7789_COLMOD  == 58   \* 0x3A

MADCTL_ROTATE_90 == 96 \* 0x60
COLMOD_16BIT     == 85 \* 0x55

(* What reaches the panel besides the transfers [dc, bits]: a level driven *)
(* on the reset line, a level driven on the backlight line, and time that  *)
(* passes with nothing driven, in microseconds.                            *)
ResetLine(level) == <<[rst |-> level]>>
Backlight(level) == <<[bl |-> level]>>
usleep(us)       == <<[us |-> us]>>
bcm2835_delay(ms) == <<[us |-> ms * 1000]>>

IsTransfer(e)  == "dc" \in DOMAIN e
IsResetLine(e) == "rst" \in DOMAIN e
IsDelay(e)     == "us" \in DOMAIN e

(* ---- clock.cpp initDisplay, lines 133-180 ---- *)

(* lines 136-143 *)
initDisplay_reset ==
    ResetLine(1) \o bcm2835_delay(10)
        \o ResetLine(0) \o bcm2835_delay(50)
        \o ResetLine(1) \o bcm2835_delay(150)

initDisplay_config_DisplayOnFirst ==
    writeCommand(ST7789_DISPON) \o bcm2835_delay(120)
        \o writeCommand(ST7789_SWRESET) \o bcm2835_delay(200)
        \o writeCommand(ST7789_SLPOUT) \o bcm2835_delay(120)
        \o writeCommand(ST7789_MADCTL) \o writeData(MADCTL_ROTATE_90)
        \o writeCommand(ST7789_COLMOD) \o writeData(COLMOD_16BIT)
        \o writeCommand(ST7789_NORON) \o bcm2835_delay(10)
        \o writeCommand(ST7789_INVON) \o bcm2835_delay(10)

(* lines 145-177 *)
initDisplay_config ==
    writeCommand(ST7789_SWRESET) \o bcm2835_delay(200)
        \o writeCommand(ST7789_SLPOUT) \o bcm2835_delay(120)
        \o writeCommand(ST7789_MADCTL) \o writeData(MADCTL_ROTATE_90)
        \o writeCommand(ST7789_COLMOD) \o writeData(COLMOD_16BIT)
        \o writeCommand(ST7789_NORON) \o bcm2835_delay(10)
        \o writeCommand(ST7789_INVON) \o bcm2835_delay(10)
        \o writeCommand(ST7789_DISPON) \o bcm2835_delay(120)

initDisplay == initDisplay_reset \o initDisplay_config

(* ---- failsafe.cpp display_error_screen, lines 157-192 ---- *)

display_error_screen_reset_NoPulse ==
    ResetLine(1) \o usleep(10000)
        \o ResetLine(1) \o usleep(50000)
        \o ResetLine(1) \o usleep(150000)

(* lines 157-164 *)
display_error_screen_reset ==
    ResetLine(1) \o usleep(10000)
        \o ResetLine(0) \o usleep(50000)
        \o ResetLine(1) \o usleep(150000)

display_error_screen_init_NoDisplayOn ==
    spi_write_command(ST7789_SWRESET) \o usleep(200000)
        \o spi_write_command(ST7789_SLPOUT) \o usleep(120000)
        \o spi_write_command(ST7789_MADCTL)
        \o spi_write_data(<<MADCTL_ROTATE_90>>)
        \o spi_write_command(ST7789_COLMOD)
        \o spi_write_data(<<COLMOD_16BIT>>)
        \o spi_write_command(ST7789_NORON) \o usleep(10000)
        \o spi_write_command(ST7789_INVON) \o usleep(10000)

(* lines 166-192 *)
display_error_screen_init ==
    spi_write_command(ST7789_SWRESET) \o usleep(200000)
        \o spi_write_command(ST7789_SLPOUT) \o usleep(120000)
        \o spi_write_command(ST7789_MADCTL)
        \o spi_write_data(<<MADCTL_ROTATE_90>>)
        \o spi_write_command(ST7789_COLMOD)
        \o spi_write_data(<<COLMOD_16BIT>>)
        \o spi_write_command(ST7789_NORON) \o usleep(10000)
        \o spi_write_command(ST7789_INVON) \o usleep(10000)
        \o spi_write_command(ST7789_DISPON) \o usleep(120000)

reset_display_hardware_ShortHold ==
    ResetLine(1) \o usleep(10000)
        \o ResetLine(0) \o usleep(5000)
        \o ResetLine(1) \o usleep(200000)

(* reset_display_hardware, lines 216-230 *)
reset_display_hardware ==
    ResetLine(1) \o usleep(10000)
        \o ResetLine(0) \o usleep(50000)
        \o ResetLine(1) \o usleep(200000)

(* ---- test_display.cpp init_display, lines 120-158 ---- *)
init_display ==
    ResetLine(1) \o usleep(5000)
        \o ResetLine(0) \o usleep(20000)
        \o ResetLine(1) \o usleep(150000)
        \o spi_write_command(ST7789_SWRESET) \o usleep(150000)
        \o spi_write_command(ST7789_SLPOUT) \o usleep(120000)
        \o spi_write_command(ST7789_MADCTL)
        \o spi_write_data(<<MADCTL_ROTATE_90>>)
        \o spi_write_command(ST7789_COLMOD)
        \o spi_write_data(<<COLMOD_16BIT>>)
        \o spi_write_command(ST7789_NORON) \o usleep(10000)
        \o spi_write_command(ST7789_INVON) \o usleep(10000)
        \o spi_write_command(ST7789_DISPON) \o usleep(120000)
        \o Backlight(1)

(* ---- the panel controller: Panel State of the design (section 3) as    *)
(* the initialization steps it has received since the reset line was last  *)
(* pulsed ---- *)

PanelStates == {"UNPOWERED", "RESET_PENDING", "AWAKE_UNCONFIGURED",
                "CONFIGURED", "ACTIVE"}

ConfigCommands == {ST7789_MADCTL, ST7789_COLMOD, ST7789_NORON, ST7789_INVON}

WindowCommands == {ST7789_CASET, ST7789_RASET, ST7789_RAMWR}

NoCommand == -1

(* Bytes of the longest burst that fits a panel; the count of data bytes   *)
(* stops growing two past it and keeps its parity.                         *)
MaxBurst == 2 * (IF DISPLAY_WIDTH * DISPLAY_HEIGHT
                       > TEST_DISPLAY_WIDTH * TEST_DISPLAY_HEIGHT
                    THEN DISPLAY_WIDTH * DISPLAY_HEIGHT
                    ELSE TEST_DISPLAY_WIDTH * TEST_DISPLAY_HEIGHT)

(* state  : Panel State                                                    *)
(* rst    : level of the reset line                                        *)
(* cfg    : commands of steps 2 and 3 that have taken effect               *)
(* cmd    : the last command byte, n the data bytes received after it      *)
(* args   : the data bytes of a CASET or RASET in progress                 *)
(* col,row: the programmed address window                                  *)
(* hi     : first byte of a pixel whose second byte has not arrived        *)
(* colors : the 16-bit values written since the last RAMWR                 *)
(* pix_bad: a pixel byte arrived while the state was not ACTIVE            *)
(* win_bad: CASET/RASET/RAMWR arrived in a state other than CONFIGURED or  *)
(*          ACTIVE                                                         *)
PanelOff ==
    [state |-> "UNPOWERED", rst |-> 1, cfg |-> {}, cmd |-> NoCommand,
     n |-> 0, args |-> <<>>, col |-> <<>>, row |-> <<>>, hi |-> 0,
     colors |-> {}, pix_bad |-> FALSE, win_bad |-> FALSE]

PanelHeldInReset(p) ==
    [PanelOff EXCEPT !.rst = 0, !.pix_bad = p.pix_bad, !.win_bad = p.win_bad]

PanelCommand(p, b) ==
    LET q == [p EXCEPT !.cmd = b, !.n = 0, !.args = <<>>, !.hi = 0] IN
    IF p.rst = 0 \/ p.state = "UNPOWERED" THEN
        [p EXCEPT !.win_bad = @ \/ b \in WindowCommands]
    ELSE IF b = ST7789_SWRESET THEN
        [q EXCEPT !.state = "RESET_PENDING", !.cfg = {ST7789_SWRESET},
                  !.col = <<>>, !.row = <<>>, !.colors = {}]
    ELSE IF b = ST7789_SLPOUT THEN
        IF p.state = "RESET_PENDING" /\ ST7789_SWRESET \in p.cfg
        THEN [q EXCEPT !.state = "AWAKE_UNCONFIGURED", !.cfg = {}]
        ELSE q
    ELSE IF b \in {ST7789_NORON, ST7789_INVON} THEN
        IF p.state = "AWAKE_UNCONFIGURED"
        THEN LET c == p.cfg \cup {b} IN
             [q EXCEPT !.cfg = c,
                       !.state = IF c = ConfigCommands THEN "CONFIGURED"
                                 ELSE @]
        ELSE q
    ELSE IF b = ST7789_DISPON THEN
        IF p.state = "CONFIGURED" THEN [q EXCEPT !.state = "ACTIVE"] ELSE q
    ELSE IF b \in WindowCommands THEN
        [q EXCEPT !.win_bad = @ \/ p.state \notin {"CONFIGURED", "ACTIVE"},
                  !.colors = IF b = ST7789_RAMWR THEN {} ELSE @]
    ELSE q

PanelData(p, b) ==
    LET q == [p EXCEPT !.n = IF @ < MaxBurst + 2 THEN @ + 1 ELSE @ - 1] IN
    IF p.rst = 0 \/ p.state = "UNPOWERED" THEN
        [p EXCEPT !.pix_bad = @ \/ p.cmd = ST7789_RAMWR]
    ELSE IF p.cmd \in {ST7789_MADCTL, ST7789_COLMOD} /\ p.n = 0 THEN
        IF p.state = "AWAKE_UNCONFIGURED"
        THEN LET c == p.cfg \cup {p.cmd} IN
             [q EXCEPT !.cfg = c,
                       !.state = IF c = ConfigCommands THEN "CONFIGURED"
                                 ELSE @]
        ELSE q
    ELSE IF p.cmd \in {ST7789_CASET, ST7789_RASET} /\ p.n < 4 THEN
        LET a == Append(p.args, b)
            w == <<a[1] * 256 + a[2], a[3] * 256 + a[4]>>
        IN IF Len(a) < 4 THEN [q EXCEPT !.args = a]
           ELSE IF p.cmd = ST7789_CASET
                THEN [q EXCEPT !.args = <<>>, !.col = w]
                ELSE [q EXCEPT !.args = <<>>, !.row = w]
    ELSE IF p.cmd = ST7789_RAMWR THEN
        LET r == [q EXCEPT !.pix_bad = @ \/ p.state # "ACTIVE"] IN
        IF p.n % 2 = 0 THEN [r EXCEPT !.hi = b]
        ELSE [r EXCEPT !.hi = 0, !.colors = @ \cup {p.hi * 256 + b}]
    ELSE q

(* The panel receives one event. *)
PanelEvent(p, e) ==
    IF IsResetLine(e) THEN
        IF e.rst = 0 THEN PanelHeldInReset(p)
        ELSE IF p.rst = 0
             THEN [p EXCEPT !.rst = 1, !.state = "RESET_PENDING"]
             ELSE p
    ELSE IF IsTransfer(e) THEN
        IF e.dc = DC_COMMAND THEN PanelCommand(p, SampledByte(e.bits))
        ELSE PanelData(p, SampledByte(e.bits))
    ELSE p

(* The panel receives a sequence of events, one after the other: q is the  *)
(* panel after event i.                                                    *)
RECURSIVE PanelFeed(_, _, _)
PanelFeed(p, evs, i) ==
    IF i > Len(evs) THEN p
    ELSE CHOOSE r \in {PanelFeed(q, evs, i + 1) :
                          q \in {PanelEvent(p, evs[i])}} : TRUE

NoPanel == [state |-> "none"]

NoInput == [op |-> "none"]

MidBurst(p) ==
    /\ p.state = "ACTIVE"
    /\ p.cmd = ST7789_RAMWR
    /\ 0 < p.n
    /\ p.n < 2 * DISPLAY_WIDTH * DISPLAY_HEIGHT

----------------------------------------------------------------------------
(* failsafe.cpp                                                            *)

Init ==
    /\ pc = "check_spi"
    /\ running = TRUE
    /\ child_pid = 0
    /\ fork_ret = 0
    /\ result = 0
    /\ status = NoStatus
    /\ restart_count = 0
    /\ first_restart_time = 0
    /\ spi_fd = -1
    /\ now = Epoch
    /\ child = "none"
    /\ live_pid = 0
    /\ child_status = NoStatus
    /\ child_sigterm = FALSE
    /\ exit_times = <<>>
    /\ handled = 0
    /\ gap_profile = "none"
    /\ all_abnormal = TRUE
    /\ error_calls = 0
    /\ stop_snap = NoSnap
    /\ framebuffer = BlankSurface
    /\ wire = <<>>
    /\ drv_op = "idle"
    /\ panel = PanelOff
    /\ trace = <<>>
    /\ prev_trace = <<>>
    /\ init_run = 0
    /\ r_pc = "off"
    /\ r_i = 0
    /\ gpio_exported = FALSE
    /\ panel_at_error = NoPanel
    /\ link_in = NoInput
    /\ bb = <<>>
    /\ bulk = <<>>
    /\ r_running = TRUE
    /\ last_second = 0
    /\ r_now = 0
    /\ refreshes = <<>>

Stopped == pc \in {"done", "exit1"}

(* kill(child_pid, SIGTERM) reaches the child only if that pid is the      *)
(* running child's.                                                        *)
KillReaches(pid) == pid > 0 /\ child = "running" /\ live_pid = pid

(* signal_handler, lines 37-42: runs between any two statements of main.   *)
signal_handler ==
    /\ ~Stopped
    /\ running' = FALSE
    /\ child_sigterm' = (child_sigterm \/ KillReaches(child_pid))
    /\ stop_snap' = IF stop_snap = NoSnap /\ pc = "waitpid" /\ child = "running"
                    THEN [count |-> restart_count, first |-> first_restart_time]
                    ELSE stop_snap
    /\ UNCHANGED <<pc, child_pid, fork_ret, result, status, restart_count,
                   first_restart_time, spi_fd>>
    /\ UNCHANGED <<now, child, live_pid, child_status>>
    /\ UNCHANGED <<exit_times, handled, gap_profile, all_abnormal, error_calls>>
    /\ UNCHANGED <<drvVars, linkVars, clkVars>>
    /\ UNCHANGED panelVars

(* check_spi_available, lines 239-246 and 271-274 *)
CheckSpi ==
    /\ pc = "check_spi"
    /\ \E ok \in BOOLEAN : pc' = IF ok THEN "setup_gpio" ELSE "exit1"
    /\ UNCHANGED <<running, child_pid, fork_ret, result, status, restart_count,
                   first_restart_time, spi_fd>>
    /\ UNCHANGED <<envVars, ghostVars>>
    /\ UNCHANGED <<drvVars, linkVars, clkVars>>
    /\ UNCHANGED panelVars

(* setup_gpio, lines 248-256 and 277-282 *)
SetupGpio ==
    /\ pc = "setup_gpio"
    /\ pc' = "loop"
    /\ UNCHANGED <<running, child_pid, fork_ret, result, status, restart_count,
                   first_restart_time, spi_fd>>
    /\ UNCHANGED <<envVars, ghostVars>>
    /\ UNCHANGED <<drvVars, linkVars, clkVars>>
    /\ gpio_exported' = TRUE
    /\ UNCHANGED <<panel, trace, prev_trace, init_run, r_pc, r_i,
                   panel_at_error>>

(* while (running), line 284 *)
LoopTest ==
    /\ pc = "loop"
    /\ pc' = IF running THEN "fork" ELSE "cleanup"
    /\ UNCHANGED <<running, child_pid, fork_ret, result, status, restart_count,
                   first_restart_time, spi_fd>>
    /\ UNCHANGED <<envVars, ghostVars>>
    /\ UNCHANGED <<drvVars, linkVars, clkVars>>
    /\ UNCHANGED panelVars

(* fork(), line 287: the call; the store to child_pid is StorePid. *)
Fork ==
    /\ pc = "fork"
    /\ \/ /\ fork_ret' = FreshPid
          /\ child' = "running"
          /\ live_pid' = FreshPid
          /\ child_sigterm' = FALSE
          /\ child_status' = NoStatus
          /\ r_pc' = "setup"       \* execvp(argv[1], ...), line 291
          /\ r_i' = 0
       \/ /\ fork_ret' = -1
          /\ UNCHANGED <<child, live_pid, child_sigterm, child_status>>
          /\ UNCHANGED <<r_pc, r_i>>
    /\ pc' = "store_pid"
    /\ UNCHANGED <<running, child_pid, result, status, restart_count,
                   first_restart_time, spi_fd, now>>
    /\ UNCHANGED ghostVars
    /\ UNCHANGED <<drvVars, linkVars, clkVars>>
    /\ UNCHANGED <<panel, trace, prev_trace, init_run, gpio_exported,
                   panel_at_error>>

StorePid_NoWait ==
    /\ pc = "store_pid"
    /\ child_pid' = fork_ret
    /\ pc' = IF fork_ret > 0 THEN "loop" ELSE "cleanup"
    /\ UNCHANGED <<running, fork_ret, result, status, restart_count,
                   first_restart_time, spi_fd>>
    /\ UNCHANGED <<envVars, ghostVars>>
    /\ UNCHANGED <<drvVars, linkVars, clkVars>>
    /\ UNCHANGED panelVars

StorePid_RetryFork ==
    /\ pc = "store_pid"
    /\ child_pid' = fork_ret
    /\ pc' = IF fork_ret > 0 THEN "waitpid" ELSE "loop"
    /\ UNCHANGED <<running, fork_ret, result, status, restart_count,
                   first_restart_time, spi_fd>>
    /\ UNCHANGED <<envVars, ghostVars>>
    /\ UNCHANGED <<drvVars, linkVars, clkVars>>
    /\ UNCHANGED panelVars

(* child_pid = <fork's value>, lines 287-295 and 348-351 *)
StorePid ==
    /\ pc = "store_pid"
    /\ child_pid' = fork_ret
    /\ pc' = IF fork_ret > 0 THEN "waitpid" ELSE "cleanup"
    /\ UNCHANGED <<running, fork_ret, result, status, restart_count,
                   first_restart_time, spi_fd>>
    /\ UNCHANGED <<envVars, ghostVars>>
    /\ UNCHANGED <<drvVars, linkVars, clkVars>>
    /\ UNCHANGED panelVars

(* The child terminates, by exit or by signal, d seconds after its start:  *)
(* at any point by a signal or a fault, and with the value main returns    *)
(* once the renderer has reached a return statement.                       *)
ChildTerminatesAfter(D) ==
    /\ child = "running"
    /\ \E st \in Statuses, d \in D :
          /\ r_pc = "exit1" => st = Exited(1)
          /\ r_pc = "exit0" => st = Exited(0)
          /\ child_status' = st
          /\ all_abnormal' = (all_abnormal /\ Abnormal(st))
          /\ Tick(d)
    /\ child' = "zombie"
    /\ UNCHANGED <<pc, running, child_pid, fork_ret, result, status,
                   restart_count, spi_fd>>
    /\ UNCHANGED <<live_pid, child_sigterm>>
    /\ UNCHANGED <<handled, gap_profile, error_calls>>
    /\ UNCHANGED <<drvVars, linkVars, clkVars>>
    /\ r_pc' = "off"
    /\ r_i' = 0
    /\ UNCHANGED <<panel, trace, prev_trace, init_run, gpio_exported,
                   panel_at_error>>

ChildTerminates == ChildTerminatesAfter(RunTimes)

WaitpidReturns_Interrupted ==
    /\ pc = "waitpid"
    /\ ~running
    /\ result' = -1
    /\ status' = NoStatus
    /\ pc' = "check_running"
    /\ UNCHANGED <<running, child_pid, fork_ret, restart_count,
                   first_restart_time, spi_fd>>
    /\ UNCHANGED <<envVars, ghostVars>>
    /\ UNCHANGED <<drvVars, linkVars, clkVars>>
    /\ UNCHANGED panelVars

WaitpidReturns_NoHang ==
    /\ pc = "waitpid"
    /\ result' = child_pid
    /\ status' = Signaled(SIGSEGV)
    /\ pc' = "check_running"
    /\ UNCHANGED <<running, child_pid, fork_ret, restart_count,
                   first_restart_time, spi_fd>>
    /\ UNCHANGED <<envVars, ghostVars>>
    /\ UNCHANGED <<drvVars, linkVars, clkVars>>
    /\ UNCHANGED panelVars

(* waitpid(child_pid, &status, 0), line 298: returns once the child has    *)
(* terminated (the handlers are installed with signal(), which restarts    *)
(* the call after the handler has run).                                    *)
WaitpidReturns ==
    /\ pc = "waitpid"
    /\ child = "zombie"
    /\ live_pid = child_pid
    /\ \/ /\ result' = child_pid
          /\ status' = child_status
       \/ /\ result' = -1          \* ECHILD: the child was reaped elsewhere
          /\ status' = NoStatus
    /\ child' = "none"
    /\ live_pid' = 0
    /\ child_status' = NoStatus
    /\ pc' = "check_running"
    /\ UNCHANGED <<running, child_pid, fork_ret, restart_count,
                   first_restart_time, spi_fd>>
    /\ UNCHANGED <<now, child_sigterm>>
    /\ UNCHANGED ghostVars
    /\ UNCHANGED <<drvVars, linkVars, clkVars>>
    /\ UNCHANGED panelVars

(* if (!running) break, lines 300-303 *)
ShutdownRequested_Ignored(r) == FALSE

ShutdownRequested(r) == ~r

CheckRunning ==
    /\ pc = "check_running"
    /\ pc' = IF ShutdownRequested(running) THEN "cleanup" ELSE "classify"
    /\ UNCHANGED <<running, child_pid, fork_ret, result, status, restart_count,
                   first_restart_time, spi_fd>>
    /\ UNCHANGED <<envVars, ghostVars>>
    /\ UNCHANGED <<drvVars, linkVars, clkVars>>
    /\ UNCHANGED panelVars

(* lines 305-326: waitpid failure and a clean exit leave the loop *)
CleanExit_WrongCode(st) == WIFEXITED(st) /\ WEXITSTATUS(st) = 1

CleanExit(st) == WIFEXITED(st) /\ WEXITSTATUS(st) = 0

Classify ==
    /\ pc = "classify"
    /\ pc' = IF result = -1 THEN "cleanup"
             ELSE IF CleanExit(status) THEN "cleanup"
             ELSE "track"
    /\ UNCHANGED <<running, child_pid, fork_ret, result, status, restart_count,
                   first_restart_time, spi_fd>>
    /\ UNCHANGED <<envVars, ghostVars>>
    /\ UNCHANGED <<drvVars, linkVars, clkVars>>
    /\ UNCHANGED panelVars

(* lines 329-337: the Restart Ledger *)
WindowExpired_Cumulative(first, t) == first = 0

WindowExpired(first, t) == first = 0 \/ (t - first) > restart_window

NextCount_NeverResets(count, expired) == count + 1

NextCount(count, expired) == (IF expired THEN 0 ELSE count) + 1

TooManyRestarts_OffByOne(count) == count >= max_restarts

TooManyRestarts_Never(count) == FALSE

TooManyRestarts(count) == count > max_restarts

InWindow(t) == SelectSeq(exit_times, LAMBDA e : t - e <= restart_window)

LastN(s, n) == IF Len(s) <= n THEN s ELSE SubSeq(s, Len(s) - n + 1, Len(s))

(* A gap of QuickGap seconds or less between consecutive abnormal exits    *)
(* puts max_restarts + 1 of them inside one window.                        *)
QuickGap == restart_window \div max_restarts

GapProfile(prev, gap) ==
    LET this == IF gap > restart_window THEN "spread"
                ELSE IF gap <= QuickGap THEN "tight" ELSE "mixed"
    IN IF prev = "none" THEN this ELSE IF prev = this THEN this ELSE "mixed"

TrackRestart ==
    /\ pc = "track"
    /\ LET expired == WindowExpired(first_restart_time, now)
           count   == NextCount(restart_count, expired)
       IN /\ first_restart_time' = IF expired THEN now ELSE first_restart_time
          /\ restart_count' = count
          /\ pc' = IF TooManyRestarts(count) THEN "err_open" ELSE "reset"
          /\ error_calls' = IF TooManyRestarts(count) /\ error_calls < 2
                            THEN error_calls + 1 ELSE error_calls
    /\ exit_times' = LastN(Append(InWindow(now), now), max_restarts + 1)
    /\ handled' = IF handled <= max_restarts + 1 THEN handled + 1 ELSE handled
    /\ gap_profile' = IF exit_times = <<>> THEN gap_profile
                      ELSE GapProfile(gap_profile,
                                      now - exit_times[Len(exit_times)])
    /\ UNCHANGED <<running, child_pid, fork_ret, result, status, spi_fd>>
    /\ UNCHANGED envVars
    /\ UNCHANGED <<all_abnormal, stop_snap>>
    /\ UNCHANGED <<drvVars, linkVars, clkVars>>
    /\ UNCHANGED panelVars

ErrOpen_IgnoresFailure ==
    /\ pc = "err_open"
    /\ \E ok \in BOOLEAN :
          /\ spi_fd' = IF ok THEN SPI_FD ELSE -1
          /\ pc' = "err_reset"
          /\ panel_at_error' = IF ok THEN panel ELSE panel_at_error
    /\ UNCHANGED <<running, child_pid, fork_ret, result, status, restart_count,
                   first_restart_time>>
    /\ UNCHANGED <<envVars, ghostVars>>
    /\ UNCHANGED <<drvVars, linkVars, clkVars>>
    /\ UNCHANGED <<panel, trace, prev_trace, init_run, r_pc, r_i,
                   gpio_exported>>

(* display_error_screen, lines 139-214 *)
ErrOpen ==
    /\ pc = "err_open"
    /\ \E ok \in BOOLEAN :
          /\ spi_fd' = IF ok THEN SPI_FD ELSE -1
          /\ pc' = IF ok THEN "err_reset" ELSE "sleep10"
          /\ panel_at_error' = IF ok THEN panel ELSE panel_at_error
    /\ UNCHANGED <<running, child_pid, fork_ret, result, status, restart_count,
                   first_restart_time>>
    /\ UNCHANGED <<envVars, ghostVars>>
    /\ UNCHANGED <<drvVars, linkVars, clkVars>>
    /\ UNCHANGED <<panel, trace, prev_trace, init_run, r_pc, r_i,
                   gpio_exported>>

ErrStep(from, to, evs) ==
    /\ pc = from
    /\ pc' = to
    /\ trace' = IF from = "err_reset" THEN evs ELSE trace \o evs
    /\ panel' = PanelFeed(panel, evs, 1)
    /\ UNCHANGED <<running, child_pid, fork_ret, result, status, restart_count,
                   first_restart_time, spi_fd>>
    /\ UNCHANGED <<envVars, ghostVars>>
    /\ UNCHANGED <<drvVars, linkVars, clkVars>>
    /\ UNCHANGED <<prev_trace, init_run, r_pc, r_i, gpio_exported,
                   panel_at_error>>

(* lines 157-164 *)
ErrReset == ErrStep("err_reset", "err_init", display_error_screen_reset)

(* lines 166-192 *)
ErrInit == ErrStep("err_init", "err_fill", display_error_screen_init)

(* lines 194-210 *)
ErrFill == ErrStep("err_fill", "err_close", ErrorFillStream)

ErrClose ==                                       \* lines 212-213
    /\ pc = "err_close"
    /\ spi_fd' = -1
    /\ pc' = "sleep10"
    /\ UNCHANGED <<running, child_pid, fork_ret, result, status, restart_count,
                   first_restart_time>>
    /\ UNCHANGED <<envVars, ghostVars>>
    /\ UNCHANGED <<drvVars, linkVars, clkVars>>
    /\ UNCHANGED panelVars

(* sleep(10); break, lines 340-341 *)
CircuitCooldown ==
    /\ pc = "sleep10"
    /\ Tick(CircuitSleep)
    /\ pc' = "cleanup"
    /\ UNCHANGED <<running, child_pid, fork_ret, result, status, restart_count,
                   spi_fd>>
    /\ UNCHANGED <<child, live_pid, child_status, child_sigterm>>
    /\ UNCHANGED <<handled, gap_profile, all_abnormal, error_calls>>
    /\ UNCHANGED <<drvVars, linkVars, clkVars>>
    /\ UNCHANGED panelVars

(* reset_display_hardware, lines 216-230 and 344-345 *)
ResetDisplayHardware ==
    /\ pc = "reset"
    /\ pc' = "sleep2"
    /\ UNCHANGED <<running, child_pid, fork_ret, result, status, restart_count,
                   first_restart_time, spi_fd>>
    /\ UNCHANGED <<envVars, ghostVars>>
    /\ UNCHANGED <<drvVars, linkVars, clkVars>>
    /\ trace' = reset_display_hardware
    /\ panel' = PanelFeed(panel, reset_display_hardware, 1)
    /\ UNCHANGED <<prev_trace, init_run, r_pc, r_i, gpio_exported,
                   panel_at_error>>

(* sleep(2), line 346 *)
RecoveryCooldown ==
    /\ pc = "sleep2"
    /\ Tick(RecoverySleep)
    /\ pc' = "loop"
    /\ UNCHANGED <<running, child_pid, fork_ret, result, status, restart_count,
                   spi_fd>>
    /\ UNCHANGED <<child, live_pid, child_status, child_sigterm>>
    /\ UNCHANGED <<handled, gap_profile, all_abnormal, error_calls>>
    /\ UNCHANGED <<drvVars, linkVars, clkVars>>
    /\ UNCHANGED panelVars

(* cleanup_gpio, lines 232-237 and 354-357 *)
CleanupGpio ==
    /\ pc = "cleanup"
    /\ pc' = "done"
    /\ UNCHANGED <<running, child_pid, fork_ret, result, status, restart_count,
                   first_restart_time, spi_fd>>
    /\ UNCHANGED <<envVars, ghostVars>>
    /\ UNCHANGED <<drvVars, linkVars, clkVars>>
    /\ gpio_exported' = FALSE
    /\ UNCHANGED <<panel, trace, prev_trace, init_run, r_pc, r_i,
                   panel_at_error>>

SupervisorStep ==
    \/ CheckSpi \/ SetupGpio \/ LoopTest \/ Fork \/ StorePid
    \/ WaitpidReturns \/ CheckRunning \/ Classify \/ TrackRestart
    \/ ErrOpen \/ ErrReset \/ ErrInit \/ ErrFill \/ ErrClose
    \/ CircuitCooldown \/ ResetDisplayHardware \/ RecoveryCooldown
    \/ CleanupGpio

Next == SupervisorStep \/ ChildTerminates \/ signal_handler

Spec == Init /\ [][Next]_vars

(* The supervisor is a running process, so it takes its next step; every   *)
(* child terminates after a finite run time.  Nothing obliges a stop       *)
(* signal to arrive.                                                       *)
FairSpec == Spec /\ WF_vars(SupervisorStep) /\ WF_vars(ChildTerminates)

(* A child to which SIGTERM was delivered terminates (clock.cpp lines 57-59 *)
(* and 317: its handler clears running and main returns); a child that got *)
(* no signal may run forever.  The supervisor takes its next step.         *)
SignalledChildTerminates == child_sigterm /\ ChildTerminates

StopSpec == Spec /\ WF_vars(SupervisorStep)
                 /\ WF_vars(SignalledChildTerminates)

----------------------------------------------------------------------------
(* The renderer child: clock.cpp main(), one event per step, so that the   *)
(* child can terminate between any two events of initDisplay or of a       *)
(* pixel burst.                                                            *)

RendererSetup_ResetsOnFailure ==
    /\ child = "running"
    /\ r_pc = "setup"
    /\ \E ok \in BOOLEAN :
          /\ r_pc' = IF ok THEN "init" ELSE "exit1"
          /\ panel' = IF ok THEN panel
                      ELSE PanelFeed(panel, initDisplay_reset, 1)
    /\ UNCHANGED <<trace, prev_trace, init_run, r_i, gpio_exported,
                   panel_at_error>>
    /\ UNCHANGED <<supVars, envVars, ghostVars, drvVars, linkVars, clkVars>>

RendererSetup_SkipInit ==
    /\ child = "running"
    /\ r_pc = "setup"
    /\ \E ok \in BOOLEAN : r_pc' = IF ok THEN "loop" ELSE "exit1"
    /\ UNCHANGED <<panel, trace, prev_trace, init_run, r_i, gpio_exported,
                   panel_at_error>>
    /\ UNCHANGED <<supVars, envVars, ghostVars, drvVars, linkVars, clkVars>>

(* display.setupGPIO(), lines 306-309: bcm2835_init succeeds or main       *)
(* returns 1.                                                              *)
RendererSetup ==
    /\ child = "running"
    /\ r_pc = "setup"
    /\ \E ok \in BOOLEAN : r_pc' = IF ok THEN "init" ELSE "exit1"
    /\ UNCHANGED <<panel, trace, prev_trace, init_run, r_i, gpio_exported,
                   panel_at_error>>
    /\ UNCHANGED <<supVars, envVars, ghostVars, drvVars, linkVars, clkVars>>

(* The next event of a call reaches the panel; after the last one the      *)
(* call returns.                                                           *)
RendererEmits(evs, after) ==
    /\ panel' = PanelEvent(panel, evs[r_i + 1])
    /\ IF r_i + 1 < Len(evs)
       THEN r_i' = r_i + 1 /\ r_pc' = r_pc
       ELSE r_i' = 0 /\ r_pc' = after

(* display.initDisplay(), line 311 *)
RendererInit ==
    /\ child = "running"
    /\ r_pc = "init"
    /\ RendererEmits(initDisplay, "loop")
    /\ UNCHANGED <<trace, prev_trace, init_run, gpio_exported, panel_at_error>>
    /\ UNCHANGED <<supVars, envVars, ghostVars, drvVars, linkVars, clkVars>>

(* while (running), line 317: the handler of lines 57-59 has cleared       *)
(* running if SIGTERM was delivered; main then returns 0 (line 361).       *)
RendererLoop ==
    /\ child = "running"
    /\ r_pc = "loop"
    /\ r_pc' = IF child_sigterm THEN "exit0" ELSE "paint"
    /\ UNCHANGED <<panel, trace, prev_trace, init_run, r_i, gpio_exported,
                   panel_at_error>>
    /\ UNCHANGED <<supVars, envVars, ghostVars, drvVars, linkVars, clkVars>>

(* lines 334-348: the surface is cleared and the time and the date are     *)
(* drawn, here one pixel of each.                                          *)
RendererPaint ==
    /\ child = "running"
    /\ r_pc = "paint"
    /\ framebuffer' =
          draw_pixel(
              draw_pixel(
                  draw_rect(framebuffer, 0, 0, DISPLAY_WIDTH, DISPLAY_HEIGHT,
                            COLOR_BLACK),
                  0, 0, TextColor(0)),
              DISPLAY_WIDTH - 1, DISPLAY_HEIGHT - 1,
              TextColor(DISPLAY_HEIGHT - 1))
    /\ r_pc' = "push"
    /\ UNCHANGED <<wire, drv_op>>
    /\ UNCHANGED <<panel, trace, prev_trace, init_run, r_i, gpio_exported,
                   panel_at_error>>
    /\ UNCHANGED <<supVars, envVars, ghostVars, linkVars, clkVars>>

(* display.pushFramebuffer(framebuffer, ...), line 351 *)
RendererPush ==
    /\ child = "running"
    /\ r_pc = "push"
    /\ RendererEmits(pushFramebuffer(framebuffer, DISPLAY_WIDTH,
                                     DISPLAY_HEIGHT), "loop")
    /\ UNCHANGED <<trace, prev_trace, init_run, gpio_exported, panel_at_error>>
    /\ UNCHANGED <<supVars, envVars, ghostVars, drvVars, linkVars, clkVars>>

RendererStep ==
    \/ RendererSetup \/ RendererInit \/ RendererLoop \/ RendererPaint
    \/ RendererPush

(* The supervisor, its signal handler, the renderer it runs and the panel. *)
(* What reaches the panel does not depend on how long a child ran, only on *)
(* where it stopped and on whether the breaker then trips, so the children *)
(* here terminate within the second they were started in: the first ten    *)
(* abnormal exits are followed by the recovery reset and the eleventh by   *)
(* the error screen.                                                       *)
QuickRuns == {0}

PanelNext == SupervisorStep \/ ChildTerminatesAfter(QuickRuns)
                 \/ signal_handler \/ RendererStep

SpecPanel == Init /\ [][PanelNext]_vars

----------------------------------------------------------------------------
(* The renderer alone: clock.cpp main() statement by statement, with its   *)
(* own signal handler and the wall clock it polls.                         *)

(* Seconds the wall clock advances while the renderer is observed *)
ClockSeconds == 3

(* What leaves the renderer untouched *)
ClockFrame ==
    UNCHANGED <<supVars, envVars, ghostVars, wire, drv_op, trace, prev_trace,
                init_run, gpio_exported, panel_at_error, linkVars>>

(* The wall clock passes to the next second, at any moment. *)
ClockTick ==
    /\ now < Epoch + ClockSeconds
    /\ now' = now + 1
    /\ UNCHANGED <<child, live_pid, child_status, child_sigterm>>
    /\ UNCHANGED <<supVars, ghostVars, drvVars, panelVars, linkVars, clkVars>>

(* signal_handler, lines 57-59, installed at lines 300-301: runs between   *)
(* any two statements of main and inside any call main has made.           *)
clock_signal_handler ==
    /\ r_pc \notin {"off", "exit0", "exit1"}
    /\ r_running' = FALSE
    /\ UNCHANGED <<last_second, r_now, refreshes>>
    /\ UNCHANGED <<panel, r_pc, r_i, framebuffer>>
    /\ ClockFrame

(* lines 293-304 *)
ClockMain ==
    /\ r_pc = "off"
    /\ refreshes = <<>>
    /\ r_running
    /\ r_pc' = "setup"
    /\ UNCHANGED <<panel, r_i, framebuffer, clkVars>>
    /\ ClockFrame

(* if (!display.setupGPIO()) return 1, lines 307-309 *)
ClockSetupGPIO ==
    /\ r_pc = "setup"
    /\ \E ok \in BOOLEAN : r_pc' = IF ok THEN "init" ELSE "exit1"
    /\ UNCHANGED <<panel, r_i, framebuffer, clkVars>>
    /\ ClockFrame

(* display.initDisplay(); time_t last_second = 0, lines 311-315 *)
ClockInitDisplay ==
    /\ r_pc = "init"
    /\ RendererEmits(initDisplay, "loop")
    /\ last_second' = 0
    /\ UNCHANGED <<framebuffer, r_running, r_now, refreshes>>
    /\ ClockFrame

(* while (running), line 317; after the loop powerDown and return 0,       *)
(* lines 357-361                                                           *)
ClockLoop ==
    /\ r_pc = "loop"
    /\ r_pc' = IF r_running THEN "poll" ELSE "exit0"
    /\ UNCHANGED <<panel, r_i, framebuffer, clkVars>>
    /\ ClockFrame

(* time_t now = time(nullptr), line 318 *)
ClockPoll ==
    /\ r_pc = "poll"
    /\ r_now' = now
    /\ r_pc' = "compare"
    /\ UNCHANGED <<panel, r_i, framebuffer, r_running, last_second, refreshes>>
    /\ ClockFrame

ClockCompare_AlwaysRefreshes ==
    /\ r_pc = "compare"
    /\ last_second' = r_now
    /\ refreshes' = IF Len(refreshes) <= ClockSeconds + 1
                    THEN Append(refreshes, r_now) ELSE refreshes
    /\ r_pc' = "paint"
    /\ UNCHANGED <<panel, r_i, framebuffer, r_running, r_now>>
    /\ ClockFrame

(* if (now != last_second) { last_second = now; ..., lines 321-322 *)
ClockCompare ==
    /\ r_pc = "compare"
    /\ IF r_now # last_second
       THEN /\ last_second' = r_now
            /\ refreshes' = IF Len(refreshes) <= ClockSeconds + 1
                            THEN Append(refreshes, r_now) ELSE refreshes
            /\ r_pc' = "paint"
       ELSE /\ UNCHANGED <<last_second, refreshes>>
            /\ r_pc' = "sleep"
    /\ UNCHANGED <<panel, r_i, framebuffer, r_running, r_now>>
    /\ ClockFrame

(* lines 324-348: the surface is cleared and the time and the date are     *)
(* drawn, here one pixel of each.                                          *)
ClockPaint ==
    /\ r_pc = "paint"
    /\ framebuffer' =
          draw_pixel(
              draw_pixel(
                  draw_rect(framebuffer, 0, 0, DISPLAY_WIDTH, DISPLAY_HEIGHT,
                            COLOR_BLACK),
                  0, 0, TextColor(0)),
              DISPLAY_WIDTH - 1, DISPLAY_HEIGHT - 1,
              TextColor(DISPLAY_HEIGHT - 1))
    /\ r_pc' = "push"
    /\ UNCHANGED <<panel, r_i, clkVars>>
    /\ ClockFrame

ClockPush_StopsWhenSignalled ==
    /\ r_pc = "push"
    /\ IF r_running
       THEN RendererEmits(pushFramebuffer(framebuffer, DISPLAY_WIDTH,
                                          DISPLAY_HEIGHT), "sleep")
       ELSE r_pc' = "loop" /\ r_i' = 0 /\ panel' = panel
    /\ UNCHANGED <<framebuffer, clkVars>>
    /\ ClockFrame

(* display.pushFramebuffer(framebuffer, ...), line 351, one transfer per   *)
(* step                                                                    *)
ClockPush ==
    /\ r_pc = "push"
    /\ RendererEmits(pushFramebuffer(framebuffer, DISPLAY_WIDTH,
                                     DISPLAY_HEIGHT), "sleep")
    /\ UNCHANGED <<framebuffer, clkVars>>
    /\ ClockFrame

(* usleep(100000), line 354 *)
ClockSleep ==
    /\ r_pc = "sleep"
    /\ r_pc' = "loop"
    /\ UNCHANGED <<panel, r_i, framebuffer, clkVars>>
    /\ ClockFrame

ClockNext ==
    \/ ClockMain \/ ClockSetupGPIO \/ ClockInitDisplay \/ ClockLoop
    \/ ClockPoll \/ ClockCompare \/ ClockPaint \/ ClockPush \/ ClockSleep
    \/ clock_signal_handler \/ ClockTick

SpecClock == Init /\ [][ClockNext]_vars

----------------------------------------------------------------------------
(* The pixel path                                                          *)

(* clock.cpp main, line 334: a frame starts from a black surface *)
ClearFramebuffer ==
    /\ drv_op \in {"idle", "paint", "push"}
    /\ framebuffer' = draw_rect(framebuffer, 0, 0, DISPLAY_WIDTH,
                                DISPLAY_HEIGHT, COLOR_BLACK)
    /\ wire' = <<>>
    /\ drv_op' = "paint"
    /\ UNCHANGED <<supVars, envVars, ghostVars, linkVars, clkVars>>
    /\ UNCHANGED panelVars

(* clock.cpp main, lines 336-348: draw_text sets pixels of the digits *)
DrawText ==
    /\ drv_op = "paint"
    /\ \E px \in 0..DISPLAY_WIDTH, py \in 0..DISPLAY_HEIGHT :
          framebuffer' = draw_pixel(framebuffer, px, py, TextColor(py))
    /\ UNCHANGED <<wire, drv_op>>
    /\ UNCHANGED <<supVars, envVars, ghostVars, linkVars, clkVars>>
    /\ UNCHANGED panelVars

(* clock.cpp main, line 351 *)
PushFramebuffer ==
    /\ drv_op = "paint"
    /\ wire' = pushFramebuffer(framebuffer, DISPLAY_WIDTH, DISPLAY_HEIGHT)
    /\ drv_op' = "push"
    /\ UNCHANGED framebuffer
    /\ UNCHANGED <<supVars, envVars, ghostVars, linkVars, clkVars>>
    /\ panel' = PanelFeed(panel, wire', 1)
    /\ init_run' = 0
    /\ UNCHANGED <<trace, prev_trace, r_pc, r_i, gpio_exported,
                   panel_at_error>>

(* failsafe.cpp display_error_screen, lines 194-210 *)
ErrorFill ==
    /\ drv_op \in {"idle", "push"}
    /\ wire' = ErrorFillStream
    /\ drv_op' = "error_fill"
    /\ framebuffer' = BlankSurface
    /\ UNCHANGED <<supVars, envVars, ghostVars, linkVars, clkVars>>
    /\ panel' = PanelFeed(panel, wire', 1)
    /\ init_run' = 0
    /\ UNCHANGED <<trace, prev_trace, r_pc, r_i, gpio_exported,
                   panel_at_error>>

TestIdle == drv_op \in {"idle", "fill_screen", "color_bars", "gradient",
                        "checkerboard"}

(* test_display.cpp main, lines 331-335 and 368-372 *)
TestFillScreen ==
    /\ TestIdle
    /\ \E color \in FillColors : wire' = fill_screen(color)
    /\ drv_op' = "fill_screen"
    /\ UNCHANGED framebuffer
    /\ UNCHANGED <<supVars, envVars, ghostVars, linkVars, clkVars>>
    /\ panel' = PanelFeed(panel, wire', 1)
    /\ init_run' = 0
    /\ UNCHANGED <<trace, prev_trace, r_pc, r_i, gpio_exported,
                   panel_at_error>>

(* test_display.cpp main, line 342 *)
TestColorBars ==
    /\ TestIdle
    /\ wire' = draw_color_bars
    /\ drv_op' = "color_bars"
    /\ UNCHANGED framebuffer
    /\ UNCHANGED <<supVars, envVars, ghostVars, linkVars, clkVars>>
    /\ panel' = PanelFeed(panel, wire', 1)
    /\ init_run' = 0
    /\ UNCHANGED <<trace, prev_trace, r_pc, r_i, gpio_exported,
                   panel_at_error>>

(* test_display.cpp main, line 351 *)
TestGradient ==
    /\ TestIdle
    /\ wire' = draw_gradient
    /\ drv_op' = "gradient"
    /\ UNCHANGED framebuffer
    /\ UNCHANGED <<supVars, envVars, ghostVars, linkVars, clkVars>>
    /\ panel' = PanelFeed(panel, wire', 1)
    /\ init_run' = 0
    /\ UNCHANGED <<trace, prev_trace, r_pc, r_i, gpio_exported,
                   panel_at_error>>

(* test_display.cpp main, lines 359-364 *)
TestCheckerboard ==
    /\ TestIdle
    /\ \E sq \in SquareSizes : wire' = draw_checkerboard(sq)
    /\ drv_op' = "checkerboard"
    /\ UNCHANGED framebuffer
    /\ UNCHANGED <<supVars, envVars, ghostVars, linkVars, clkVars>>
    /\ panel' = PanelFeed(panel, wire', 1)
    /\ init_run' = 0
    /\ UNCHANGED <<trace, prev_trace, r_pc, r_i, gpio_exported,
                   panel_at_error>>

(* An initialization procedure is invoked: its events reach the panel.     *)
InitInvoked(evs) ==
    /\ trace' = evs
    /\ prev_trace' = trace
    /\ init_run' = IF init_run < 2 THEN init_run + 1 ELSE 2
    /\ panel' = PanelFeed(panel, evs, 1)
    /\ UNCHANGED <<r_pc, r_i, gpio_exported, panel_at_error>>
    /\ UNCHANGED <<supVars, envVars, ghostVars, drvVars, linkVars, clkVars>>

(* clock.cpp main, line 311 *)
InitDisplay ==
    /\ drv_op \in {"idle", "paint", "push"}
    /\ InitInvoked(initDisplay)

(* failsafe.cpp display_error_screen, lines 157-192 *)
ErrorScreenInit ==
    /\ drv_op \in {"idle", "push"}
    /\ InitInvoked(display_error_screen_reset \o display_error_screen_init)

(* test_display.cpp main, line 303 *)
TestInitDisplay ==
    /\ TestIdle
    /\ InitInvoked(init_display)

DriverNext ==
    \/ ClearFramebuffer \/ DrawText \/ PushFramebuffer \/ ErrorFill
    \/ TestFillScreen \/ TestColorBars \/ TestGradient \/ TestCheckerboard

SpecDriver == Init /\ [][DriverNext]_vars

(* The initialization procedures of the three programs, invoked between    *)
(* the operations that write pixels.                                       *)
InitNext ==
    \/ InitDisplay \/ ErrorScreenInit \/ TestInitDisplay
    \/ ClearFramebuffer \/ PushFramebuffer \/ ErrorFill
    \/ TestFillScreen \/ TestColorBars \/ TestGradient \/ TestCheckerboard

SpecInit == Init /\ [][InitNext]_vars

----------------------------------------------------------------------------
(* The link transport at the level of the lines: what each realization     *)
(* drives, in order, and what the panel samples from it.                   *)

(* bcm2835_gpio_write(pin, level) of clock.cpp and gpio_write(pin, value)  *)
(* of failsafe.cpp and test_display.cpp: the line takes the level.         *)
bcm2835_gpio_write(pin, level) == <<[level |-> level, pin |-> pin]>>
gpio_write(pin, value) == <<[level |-> IF value # 0 THEN 1 ELSE 0, pin |-> pin]>>

(* ioctl(spi_fd, SPI_IOC_MESSAGE(1), &transfer): the controller clocks the *)
(* len bytes of tx_buf out while the caller is blocked.                    *)
ioctl_SPI_IOC_MESSAGE(tx_buf) == <<[tx |-> tx_buf]>>

(* ---- clock.cpp ---- *)

RECURSIVE spiWriteByte_gpio_DataAfterEdge(_, _)
spiWriteByte_gpio_DataAfterEdge(byte, i) ==
    IF i < 0 THEN <<>>
    ELSE bcm2835_gpio_write("SCLK", 0)
         \o bcm2835_gpio_write("SCLK", 1)
         \o bcm2835_gpio_write("SDATA", (byte \div Pow2(i)) % 2)
         \o spiWriteByte_gpio_DataAfterEdge(byte, i - 1)

(* spiWriteByte, lines 67-83, for i = 7 down to 0; TFT_HIGHFREQ_DELAY is 0 *)
RECURSIVE spiWriteByte_gpio(_, _)
spiWriteByte_gpio(byte, i) ==
    IF i < 0 THEN <<>>
    ELSE bcm2835_gpio_write("SCLK", 0)
         \o bcm2835_gpio_write("SDATA", (byte \div Pow2(i)) % 2)
         \o bcm2835_gpio_write("SCLK", 1)
         \o spiWriteByte_gpio(byte, i - 1)

writeCommand_gpio_LateDC(cmd) ==
    bcm2835_gpio_write("CS", 0)
        \o spiWriteByte_gpio(U8(cmd), 7)
        \o bcm2835_gpio_write("DC", 0)
        \o bcm2835_gpio_write("CS", 1)

(* writeCommand, lines 85-90 *)
writeCommand_gpio(cmd) ==
    bcm2835_gpio_write("DC", 0)
        \o bcm2835_gpio_write("CS", 0)
        \o spiWriteByte_gpio(U8(cmd), 7)
        \o bcm2835_gpio_write("CS", 1)

(* writeData, lines 92-97 *)
writeData_gpio(data) ==
    bcm2835_gpio_write("DC", 1)
        \o bcm2835_gpio_write("CS", 0)
        \o spiWriteByte_gpio(U8(data), 7)
        \o bcm2835_gpio_write("CS", 1)

(* setAddrWindow, lines 183-197 *)
setAddrWindow_gpio(x0, y0, x1, y1) ==
    writeCommand_gpio(ST7789_CASET)
        \o writeData_gpio(x0 \div 256) \o writeData_gpio(x0 % 256)
        \o writeData_gpio(x1 \div 256) \o writeData_gpio(x1 % 256)
    \o writeCommand_gpio(ST7789_RASET)
        \o writeData_gpio(y0 \div 256) \o writeData_gpio(y0 % 256)
        \o writeData_gpio(y1 \div 256) \o writeData_gpio(y1 % 256)
    \o writeCommand_gpio(ST7789_RAMWR)

(* The burst of pushFramebuffer, lines 212-221 *)
RECURSIVE PushLoop_gpio(_, _)
PushLoop_gpio(pixels, i) ==
    IF i > Len(pixels) THEN <<>>
    ELSE spiWriteByte_gpio(Hi(pixels[i]), 7)
         \o spiWriteByte_gpio(Lo(pixels[i]), 7)
         \o PushLoop_gpio(pixels, i + 1)

PushBurst_gpio(pixels) ==
    bcm2835_gpio_write("DC", 1)
        \o bcm2835_gpio_write("CS", 0)
        \o PushLoop_gpio(pixels, 1)
        \o bcm2835_gpio_write("CS", 1)

(* The transfers of initDisplay, each made by writeCommand or writeData *)
RECURSIVE Transfers_gpio(_, _)
Transfers_gpio(evs, i) ==
    IF i > Len(evs) THEN <<>>
    ELSE (IF ~IsTransfer(evs[i]) THEN <<>>
          ELSE IF evs[i].dc = DC_COMMAND
               THEN writeCommand_gpio(SampledByte(evs[i].bits))
               ELSE writeData_gpio(SampledByte(evs[i].bits)))
         \o Transfers_gpio(evs, i + 1)

(* ---- failsafe.cpp and test_display.cpp ---- *)

(* spi_write_command, failsafe.cpp lines 114-122 *)
spi_write_command_ioctl(cmd) ==
    gpio_write("DC", 0) \o ioctl_SPI_IOC_MESSAGE(<<U8(cmd)>>)

(* spi_write_data, failsafe.cpp lines 124-132 *)
spi_write_data_ioctl(data) ==
    gpio_write("DC", 1) \o ioctl_SPI_IOC_MESSAGE(data)

(* spi_write_data_u16, failsafe.cpp lines 134-137 *)
spi_write_data_u16_ioctl(data) ==
    spi_write_data_ioctl(<<Hi(U16(data)), Lo(U16(data))>>)

(* set_window, test_display.cpp lines 160-170; display_error_screen does   *)
(* the same inline for the whole panel, failsafe.cpp lines 196-204.        *)
set_window_ioctl(x0, y0, x1, y1) ==
    spi_write_command_ioctl(ST7789_CASET)
        \o spi_write_data_u16_ioctl(x0) \o spi_write_data_u16_ioctl(x1)
    \o spi_write_command_ioctl(ST7789_RASET)
        \o spi_write_data_u16_ioctl(y0) \o spi_write_data_u16_ioctl(y1)
    \o spi_write_command_ioctl(ST7789_RAMWR)

(* The fill loop of display_error_screen, failsafe.cpp lines 206-210, and  *)
(* the pattern loops of test_display.cpp                                   *)
RECURSIVE FillLoop_ioctl(_, _)
FillLoop_ioctl(pixels, i) ==
    IF i > Len(pixels) THEN <<>>
    ELSE spi_write_data_u16_ioctl(pixels[i]) \o FillLoop_ioctl(pixels, i + 1)

FillBurst_ioctl(pixels) == gpio_write("DC", 1) \o FillLoop_ioctl(pixels, 1)

(* The transfers of display_error_screen's initialization *)
RECURSIVE Transfers_ioctl(_, _)
Transfers_ioctl(evs, i) ==
    IF i > Len(evs) THEN <<>>
    ELSE (IF ~IsTransfer(evs[i]) THEN <<>>
          ELSE IF evs[i].dc = DC_COMMAND
               THEN spi_write_command_ioctl(SampledByte(evs[i].bits))
               ELSE spi_write_data_ioctl(<<SampledByte(evs[i].bits)>>))
         \o Transfers_ioctl(evs, i + 1)

(* ---- what the panel samples ---- *)

Unknown == -1

(* The panel samples the data line and the mode-select line at every       *)
(* rising edge of the clock while it is selected.  dcs and bits are the    *)
(* levels sampled for the byte in progress, out the completed bytes.       *)
LinesIdle == [DC |-> Unknown, CS |-> 1, SCLK |-> 0, SDATA |-> 0,
              dcs |-> <<>>, bits |-> <<>>, out |-> <<>>]

LineEvent(l, e) ==
    IF e.pin = "DC" THEN [l EXCEPT !.DC = e.level]
    ELSE IF e.pin = "CS" THEN [l EXCEPT !.CS = e.level]
    ELSE IF e.pin = "SDATA" THEN [l EXCEPT !.SDATA = e.level]
    ELSE IF e.level = 1 /\ l.SCLK = 0 /\ l.CS = 0 THEN
        LET dcs  == Append(l.dcs, l.DC)
            bits == Append(l.bits, l.SDATA)
        IN IF Len(bits) < 8
           THEN [l EXCEPT !.SCLK = 1, !.dcs = dcs, !.bits = bits]
           ELSE [l EXCEPT !.SCLK = 1, !.dcs = <<>>, !.bits = <<>>,
                          !.out = Append(@, [dcs |-> dcs, bits |-> bits])]
    ELSE [l EXCEPT !.SCLK = e.level]

(* The events lo..hi in order, the first half and then the second *)
RECURSIVE SampleLines(_, _, _, _)
SampleLines(l, evs, lo, hi) ==
    IF lo > hi THEN l
    ELSE IF lo = hi THEN LineEvent(l, evs[lo])
    ELSE LET mid == (lo + hi) \div 2
             m   == SampleLines(l, evs, lo, mid)
         IN IF m.CS \in {0, 1} THEN SampleLines(m, evs, mid + 1, hi) ELSE m

SampledBitBang(evs) == SampleLines(LinesIdle, evs, 1, Len(evs)).out

(* Under an SPI message the mode-select line keeps the level it had when   *)
(* ioctl was called.                                                       *)
RECURSIVE SampleMessages(_, _, _)
SampleMessages(dc, evs, i) ==
    IF i > Len(evs) THEN <<>>
    ELSE IF "pin" \in DOMAIN evs[i]
         THEN SampleMessages(IF evs[i].pin = "DC" THEN evs[i].level ELSE dc,
                             evs, i + 1)
         ELSE [k \in 1..Len(evs[i].tx) |->
                  [dcs |-> [j \in 1..8 |-> dc],
                   bits |-> spi_ioc_transfer(evs[i].tx[k])]]
              \o SampleMessages(dc, evs, i + 1)

SampledBulk(evs) == SampleMessages(Unknown, evs, 1)

(* ---- one logical operation, made by both realizations ---- *)

LinkCommands == {ST7789_SWRESET, ST7789_SLPOUT, ST7789_NORON, ST7789_INVON,
                 ST7789_DISPON, ST7789_CASET, ST7789_RASET, ST7789_RAMWR,
                 ST7789_MADCTL, ST7789_COLMOD}

LinkDataBytes == {0, 1, MADCTL_ROTATE_90, COLMOD_16BIT, 128, 170, 255}

LinkColors == {COLOR_BLACK, COLOR_WHITE, COLOR_RED, COLOR_GREEN, COLOR_BLUE,
               COLOR_CYAN, COLOR_MAGENTA, COLOR_YELLOW}

(* Coordinates of the 320 x 240 panel of the sources, with both bytes used *)
LinkColumns == {0, 1, 255, 256, 319}
LinkRows    == {0, 239}

LinkDone(input, bitbanged, bulked) ==
    /\ link_in' = input
    /\ bb' = bitbanged
    /\ bulk' = bulked
    /\ UNCHANGED <<supVars, envVars, ghostVars, drvVars, panelVars, clkVars>>

LinkCommand ==
    \E cmd \in LinkCommands :
        LinkDone([byte |-> cmd, op |-> "command"],
                 writeCommand_gpio(cmd), spi_write_command_ioctl(cmd))

LinkData ==
    \E data \in LinkDataBytes :
        LinkDone([byte |-> data, op |-> "data"],
                 writeData_gpio(data), spi_write_data_ioctl(<<data>>))

LinkWindow ==
    \E x0 \in LinkColumns, x1 \in LinkColumns, y0 \in LinkRows, y1 \in LinkRows :
        /\ x0 <= x1
        /\ y0 <= y1
        /\ LinkDone([op |-> "window", x0 |-> x0, y0 |-> y0, x1 |-> x1,
                     y1 |-> y1],
                    setAddrWindow_gpio(x0, y0, x1, y1),
                    set_window_ioctl(x0, y0, x1, y1))

LinkPixels ==
    \E p \in LinkColors, q \in LinkColors :
        LinkDone([op |-> "pixels", pixels |-> <<p, q>>],
                 PushBurst_gpio(<<p, q>>), FillBurst_ioctl(<<p, q>>))

LinkInit ==
    LinkDone([op |-> "init"],
             Transfers_gpio(initDisplay, 1),
             Transfers_ioctl(display_error_screen_reset
                                 \o display_error_screen_init, 1))

LinkNext == LinkCommand \/ LinkData \/ LinkWindow \/ LinkPixels \/ LinkInit

SpecLink == Init /\ [][LinkNext]_vars

(* ---- spiWriteByte for every value of its uint8_t argument, reached      *)
(* through its two callers writeCommand and writeData ---- *)

AllBytes == 0..255

ByteCommand ==
    \E b \in AllBytes :
        LinkDone([byte |-> b, op |-> "command"],
                 writeCommand_gpio(b), spi_write_command_ioctl(b))

ByteData ==
    \E b \in AllBytes :
        LinkDone([byte |-> b, op |-> "data"],
                 writeData_gpio(b), spi_write_data_ioctl(<<b>>))

ByteNext == ByteCommand \/ ByteData

SpecByte == Init /\ [][ByteNext]_vars

----------------------------------------------------------------------------
(* Properties of the supervisor                                            *)

CircuitPcs == {"err_open", "err_reset", "err_init", "err_fill", "err_close",
               "sleep10"}

(* display_error_screen has been entered: CIRCUIT_OPEN. *)
CircuitOpen == error_calls > 0

(* C1: whenever max_restarts + 1 abnormal terminations have been handled   *)
(* with the last of them no more than restart_window seconds after the     *)
(* first, whatever was handled before them, the circuit breaker has        *)
(* tripped by the time the last of them is handled.                        *)
C1_BurstTripsBreaker ==
    Len(exit_times) = max_restarts + 1 => CircuitOpen

(* C2: while every handled abnormal termination came more than             *)
(* restart_window seconds after the previous one, CIRCUIT_OPEN is never    *)
(* entered, however many there were.                                       *)
C2_SpreadNeverTrips ==
    gap_profile \in {"none", "spread"} =>
        /\ ~CircuitOpen
        /\ pc \notin CircuitPcs
        /\ restart_count <= 1

C2_Witness ==
    /\ gap_profile = "spread"
    /\ handled > max_restarts + 1
    /\ pc = "reset"

(* C3: once waitpid has reported exit code 0 the supervisor goes straight  *)
(* to STOPPED: every step from there keeps the Restart Ledger, enters      *)
(* neither reset_display_hardware nor display_error_screen, and no child   *)
(* is forked.                                                              *)
C3_CleanExitStopsDirectly ==
    [][ (status = Exited(0) /\ pc \in {"check_running", "classify", "cleanup"})
        => /\ pc' \in {"check_running", "classify", "cleanup", "done"}
           /\ restart_count' = restart_count
           /\ first_restart_time' = first_restart_time
           /\ error_calls' = error_calls
           /\ child' = "none" ]_vars

C3_Witness ==
    /\ pc = "done"
    /\ status = Exited(0)
    /\ running
    /\ restart_count > 0

C5_StopDuringWait ==
    stop_snap # NoSnap =>
        /\ ~running
        /\ child_sigterm
        /\ restart_count = stop_snap.count
        /\ first_restart_time = stop_snap.first
        /\ pc \in {"waitpid", "check_running", "cleanup", "done"}

C5_Witness ==
    /\ stop_snap # NoSnap
    /\ pc = "done"
    /\ restart_count > 0
    /\ Abnormal(status)

(* C6: no child is forked once the signal handler has run.                 *)
C6_NoForkAfterStop ==
    [][ ~running => ~(child # "running" /\ child' = "running") ]_vars

(* C7, as claimed: if every child terminates abnormally, the supervisor    *)
(* eventually reaches STOPPED.                                             *)
C7_AbnormalAlwaysStops == <>(Stopped \/ ~all_abnormal)

(* C7, amended: if every child terminates abnormally and every abnormal    *)
(* termination is handled at most restart_window / max_restarts seconds    *)
(* after the previous one, the supervisor eventually reaches STOPPED.      *)
C7_StormStops ==
    <>(Stopped \/ ~all_abnormal \/ gap_profile \in {"spread", "mixed"})

C7_Witness ==
    /\ pc = "done"
    /\ running
    /\ all_abnormal
    /\ gap_profile = "tight"
    /\ CircuitOpen

(* C8: while a forked child exists the supervisor holds no SPI descriptor  *)
(* and is at no statement that touches the SPI device or the GPIO lines.   *)
HardwarePcs == {"check_spi", "setup_gpio", "reset", "cleanup"}
                   \cup (CircuitPcs \ {"sleep10"})

C8_NoConcurrentAccess ==
    child # "none" => (spi_fd = -1 /\ pc \notin HardwarePcs)

C8_Witness ==
    /\ pc = "err_fill"
    /\ spi_fd = SPI_FD
    /\ child = "none"
    /\ live_pid = 0
    /\ handled > 0

----------------------------------------------------------------------------
(* Properties of the pixel path.  The panel's view of a stream: the bytes  *)
(* it samples, the window the last CASET and RASET programmed, and the     *)
(* data bytes between a RAMWR and the next command.                        *)

WireBytes(w) ==
    [i \in 1..Len(w) |-> [dc |-> w[i].dc, byte |-> SampledByte(w[i].bits)]]

IsCommand(B, i, cmd) == B[i].dc = DC_COMMAND /\ B[i].byte = cmd

RamwrAt(B) == {i \in 1..Len(B) : IsCommand(B, i, ST7789_RAMWR)}

(* Index of the last command cmd before position i, 0 if there is none *)
LastBefore(B, i, cmd) ==
    LET S == {j \in 1..(i - 1) : IsCommand(B, j, cmd)}
    IN IF S = {} THEN 0 ELSE CHOOSE j \in S : \A k \in S : k <= j

(* The two big-endian 16-bit arguments that follow the command at c *)
HasArgs(B, c) ==
    /\ c > 0
    /\ c + 4 <= Len(B)
    /\ \A k \in 1..4 : B[c + k].dc = DC_DATA

Arg(B, c, n) == B[c + 2 * n - 1].byte * 256 + B[c + 2 * n].byte

(* First position after i that is a command, Len(B) + 1 if there is none *)
BurstEnd(B, i) ==
    LET S == {j \in (i + 1)..Len(B) : B[j].dc = DC_COMMAND}
    IN IF S = {} THEN Len(B) + 1 ELSE CHOOSE j \in S : \A k \in S : j <= k

BurstBytes(B, i) == [k \in 1..(BurstEnd(B, i) - i - 1) |-> B[i + k].byte]

PanelWidth  == IF drv_op \in {"push", "error_fill"} THEN DISPLAY_WIDTH
               ELSE TEST_DISPLAY_WIDTH
PanelHeight == IF drv_op \in {"push", "error_fill"} THEN DISPLAY_HEIGHT
               ELSE TEST_DISPLAY_HEIGHT

WindowExact(B, i) ==
    LET c == LastBefore(B, i, ST7789_CASET)
        r == LastBefore(B, i, ST7789_RASET)
    IN /\ HasArgs(B, c) /\ HasArgs(B, r)
       /\ LET x0 == Arg(B, c, 1)
              x1 == Arg(B, c, 2)
              y0 == Arg(B, r, 1)
              y1 == Arg(B, r, 2)
          IN /\ 0 <= x0 /\ x0 <= x1 /\ x1 < PanelWidth
             /\ 0 <= y0 /\ y0 <= y1 /\ y1 < PanelHeight
             /\ Len(BurstBytes(B, i)) = 2 * (x1 - x0 + 1) * (y1 - y0 + 1)

(* C9: every operation that writes pixels (refresh, error fill, test       *)
(* patterns) programs a window inside the panel and sends, between RAMWR   *)
(* and the next command, exactly (x1-x0+1)*(y1-y0+1) 16-bit values.        *)
C9_WindowPixelCount ==
    drv_op \notin {"idle", "paint"} =>
        LET B == WireBytes(wire) IN
        /\ RamwrAt(B) # {}
        /\ \A i \in RamwrAt(B) : WindowExact(B, i)

C9_Witness ==
    /\ drv_op = "push"
    /\ \E k \in DOMAIN framebuffer : framebuffer[k] # COLOR_BLACK
    /\ Len(wire) > 11

(* C10: the data bytes pushFramebuffer sends after RAMWR, read as          *)
(* big-endian 16-bit values, are the surface in row-major order from the   *)
(* top-left corner of the window, which is the panel's origin.             *)
DecodedPixels(bytes) ==
    [k \in 0..((Len(bytes) \div 2) - 1) |->
        bytes[2 * k + 1] * 256 + bytes[2 * k + 2]]

C10_BigEndianRoundTrip ==
    drv_op = "push" =>
        LET B == WireBytes(wire)
            i == CHOOSE j \in RamwrAt(B) : TRUE
            c == LastBefore(B, i, ST7789_CASET)
            r == LastBefore(B, i, ST7789_RASET)
        IN /\ Cardinality(RamwrAt(B)) = 1
           /\ HasArgs(B, c) /\ Arg(B, c, 1) = 0
           /\ HasArgs(B, r) /\ Arg(B, r, 1) = 0
           /\ Arg(B, c, 2) - Arg(B, c, 1) + 1 = DISPLAY_WIDTH
           /\ DecodedPixels(BurstBytes(B, i)) = framebuffer

C10_Witness ==
    /\ drv_op = "push"
    /\ framebuffer[0] = COLOR_CYAN
    /\ framebuffer[DISPLAY_WIDTH * DISPLAY_HEIGHT - 1] = COLOR_YELLOW
    /\ framebuffer[1] = COLOR_BLACK

----------------------------------------------------------------------------
(* Properties of the initialization procedure                              *)

(* The reset-line transitions and the command and data bytes of a          *)
(* sequence of events, without the delays between them.                    *)
RECURSIVE LineAndBytes(_, _)
LineAndBytes(evs, i) ==
    IF i > Len(evs) THEN <<>>
    ELSE LET e == evs[i] IN
         (IF IsResetLine(e) THEN <<[rst |-> e.rst]>>
          ELSE IF IsTransfer(e)
               THEN <<[dc |-> e.dc, byte |-> SampledByte(e.bits)]>>
               ELSE <<>>)
         \o LineAndBytes(evs, i + 1)

(* C11: after every invocation of the full initialization procedure the    *)
(* panel is ACTIVE, and when two invocations follow one another the        *)
(* reset-line transitions and command/data bytes of the second are those   *)
(* of the first.                                                           *)
C11_InitIdempotent ==
    /\ init_run >= 1 => panel.state = "ACTIVE"
    /\ init_run = 2 => LineAndBytes(trace, 1) = LineAndBytes(prev_trace, 1)

C11_Witness ==
    /\ init_run = 2
    /\ panel.state = "ACTIVE"
    /\ trace = initDisplay
    /\ prev_trace = initDisplay
    /\ Len(LineAndBytes(trace, 1)) = 12

----------------------------------------------------------------------------
(* Properties of the supervisor, the renderer and the panel together       *)

(* C12: whatever the supervisor and its renderer children do, and wherever *)
(* a child is stopped, the panel never receives a pixel byte while its     *)
(* state is not ACTIVE, and never receives CASET, RASET or RAMWR while its *)
(* state is neither CONFIGURED nor ACTIVE.                                 *)
C12_PixelsOnlyWhenActive ==
    /\ ~panel.pix_bad
    /\ ~panel.win_bad
    /\ (panel.cmd \in WindowCommands => panel.state \in {"CONFIGURED", "ACTIVE"})
    /\ (panel.cmd = ST7789_RAMWR /\ panel.n > 0 => panel.state = "ACTIVE")

C12_Witness ==
    /\ r_pc = "push"
    /\ MidBurst(panel)
    /\ handled > 1
    /\ child = "running"
    /\ framebuffer[0] = COLOR_CYAN

(* C13: in whatever state the renderer children left the panel, a         *)
(* display_error_screen that opened the SPI device begins with the reset   *)
(* pulse (high, low, high on the reset line before any transfer), takes    *)
(* the panel through RESET_PENDING to ACTIVE with the same events whatever *)
(* the panel and the pixel surface held, and ends with the window set to   *)
(* the whole panel and every pixel of it written with COLOR_RED.           *)
ResetPulseFirst(evs) ==
    LET L == LineAndBytes(evs, 1) IN
    /\ Len(L) >= 3
    /\ L[1] = [rst |-> 1] /\ L[2] = [rst |-> 0] /\ L[3] = [rst |-> 1]

----------------------------------------------------------------------------
(* Properties of the link transport                                        *)

(* The (mode-select level, byte) pairs the panel is meant to receive for a *)
(* logical input.                                                          *)
CommandByte(b) == <<[dc |-> DC_COMMAND, byte |-> b]>>
DataByte(b)    == <<[dc |-> DC_DATA, byte |-> b]>>
DataWord(v)    == DataByte(v \div 256) \o DataByte(v % 256)

Intended(input) ==
    IF input.op = "command" THEN CommandByte(input.byte)
    ELSE IF input.op = "data" THEN DataByte(input.byte)
    ELSE IF input.op = "window" THEN
        CommandByte(ST7789_CASET) \o DataWord(input.x0) \o DataWord(input.x1)
            \o CommandByte(ST7789_RASET) \o DataWord(input.y0)
            \o DataWord(input.y1) \o CommandByte(ST7789_RAMWR)
    ELSE IF input.op = "pixels" THEN
        DataWord(input.pixels[1]) \o DataWord(input.pixels[2])
    ELSE
        CommandByte(ST7789_SWRESET) \o CommandByte(ST7789_SLPOUT)
            \o CommandByte(ST7789_MADCTL) \o DataByte(MADCTL_ROTATE_90)
            \o CommandByte(ST7789_COLMOD) \o DataByte(COLMOD_16BIT)
            \o CommandByte(ST7789_NORON) \o CommandByte(ST7789_INVON)
            \o CommandByte(ST7789_DISPON)

(* The pairs the panel sampled: the level of the mode-select line at the   *)
(* first clock edge of each byte, and the byte.                            *)
Pairs(S) == [i \in 1..Len(S) |->
                [dc |-> S[i].dcs[1], byte |-> SampledByte(S[i].bits)]]

SteadyAt(S, want) ==
    /\ Len(S) = Len(want)
    /\ \A i \in 1..Len(S) :
          /\ Len(S[i].dcs) = 8
          /\ \A j \in 1..8 : S[i].dcs[j] = want[i].dc

C15_DeviceUnavailableIsFatal ==
    /\ [](pc = "exit1" =>
             /\ ~gpio_exported
             /\ child = "none" /\ live_pid = 0
             /\ child_pid = 0 /\ fork_ret = 0
             /\ r_pc = "off"
             /\ panel = PanelOff /\ trace = <<>>)
    /\ [][/\ pc # "exit1"
          /\ pc' = "exit1" => pc = "check_spi"
          /\ (r_pc' = "setup" /\ r_pc # "setup") =>
                (child # "running" /\ child' = "running")
          /\ (r_pc' = "exit1" /\ r_pc # "exit1") => r_pc = "setup"
          /\ (r_pc \in {"setup", "exit1"} /\ child = "running") =>
                panel' = panel
          /\ (r_pc = "exit1" /\ r_pc' # "exit1") =>
                (child' = "zombie" /\ child_status' = Exited(1))]_vars

C15_Witness ==
    /\ r_pc = "exit1"
    /\ child = "running"
    /\ handled > 0
    /\ panel.state = "RESET_PENDING"
    /\ pc = "waitpid"

----------------------------------------------------------------------------
(* Properties of the recovery, of fork failure and of the Restart Ledger   *)

RECURSIVE ResetLevels(_, _)
ResetLevels(evs, i) ==
    IF i > Len(evs) THEN <<>>
    ELSE (IF IsResetLine(evs[i]) THEN <<evs[i].rst>> ELSE <<>>)
         \o ResetLevels(evs, i + 1)

(* The time that passes after each write of the reset line *)
RECURSIVE Holds(_, _)
Holds(evs, i) ==
    IF i > Len(evs) THEN <<>>
    ELSE (IF IsResetLine(evs[i])
          THEN <<IF i < Len(evs) /\ IsDelay(evs[i + 1]) THEN evs[i + 1].us
                 ELSE 0>>
          ELSE <<>>)
         \o Holds(evs, i + 1)

SameResetAs(evs, step1) ==
    /\ ResetLevels(evs, 1) = ResetLevels(step1, 1)
    /\ ResetLevels(evs, 1) = <<1, 0, 1>>
    /\ \A k \in 1..3 : Holds(evs, 1)[k] >= Holds(step1, 1)[k]

TimePassed(d) == now' = now + d \/ now' = Horizon

C17_ForkFailureStops ==
    /\ [](fork_ret = -1 =>
             /\ pc \in {"store_pid", "cleanup", "done"}
             /\ child = "none")
    /\ [][fork_ret = -1 =>
             /\ fork_ret' = -1
             /\ child' = "none"
             /\ restart_count' = restart_count
             /\ first_restart_time' = first_restart_time
             /\ error_calls' = error_calls
             /\ trace' = trace /\ panel' = panel /\ spi_fd' = spi_fd
             /\ pc' # pc => \/ pc = "store_pid" /\ pc' = "cleanup"
                            \/ pc = "cleanup" /\ pc' = "done"]_vars

C17_Witness ==
    /\ pc = "done"
    /\ fork_ret = -1
    /\ child_pid = -1
    /\ running
    /\ restart_count > 1
    /\ trace = reset_display_hardware

(* A stored time denotes the same instant before and after a step: the     *)
(* step let d seconds pass and moved the epoch with them.                  *)
SameInstant(t, u) ==
    \E d \in RunTimes \cup {0, RecoverySleep, CircuitSleep} :
        LET k == IF now + d > Horizon THEN now + d - Horizon ELSE 0 IN
        /\ now' = now + d - k
        /\ u = Shift(t, k)

(* Seconds since window-start; time_t 0, the value before the first        *)
(* abnormal exit, is 1970 and lies further back than any window.           *)
Elapsed == IF first_restart_time = 0 THEN restart_window + 1
           ELSE now - first_restart_time

(* C18: the Restart Ledger changes only in the step that handles an        *)
(* abnormal termination (lines 329-335, reached with waitpid successful    *)
(* and a non-zero exit code or a signal), never in the signal handler nor  *)
(* on the paths of a clean exit, a stop seen at line 300, a failed fork or *)
(* a failed waitpid; in that step the count becomes 1 and window-start now *)
(* if more than restart_window seconds have elapsed since window-start,    *)
(* and otherwise the count grows by exactly 1 and window-start stays.      *)
C18_LedgerRule ==
    [][/\ (restart_count' # restart_count
             \/ ~SameInstant(first_restart_time, first_restart_time')) =>
             /\ pc = "track" /\ pc' # "track"
             /\ result = child_pid /\ result > 0
             /\ Abnormal(status)
             /\ fork_ret > 0
       /\ (pc = "check_running" /\ ~running /\ pc' # pc) => pc' = "cleanup"
       /\ (pc = "classify" /\ pc' = "track") =>
             (result # -1 /\ Abnormal(status))
       /\ (pc = "track" /\ pc' # pc) =>
             IF Elapsed > restart_window
             THEN restart_count' = 1 /\ first_restart_time' = now
             ELSE /\ restart_count' = restart_count + 1
                  /\ first_restart_time' = first_restart_time
      ]_vars

C18_Witness ==
    /\ pc = "reset"
    /\ restart_count = 1
    /\ first_restart_time = now
    /\ handled > 2
    /\ Len(exit_times) > 1

(* What the controller sees of an event: a level of the reset line, a      *)
(* command with its byte, a data byte, or a delay that is positive or not. *)
EventKind(e) ==
    IF IsResetLine(e) THEN [k |-> "rst", v |-> e.rst]
    ELSE IF IsDelay(e) THEN [k |-> "delay", v |-> IF e.us > 0 THEN 1 ELSE 0]
    ELSE IF IsTransfer(e)
         THEN IF e.dc = DC_COMMAND
              THEN [k |-> "cmd", v |-> SampledByte(e.bits)]
              ELSE [k |-> "data", v |-> 0]
         ELSE [k |-> "bl", v |-> e.bl]

(* The events on the reset line and the link, in order *)
RECURSIVE PanelKinds(_, _)
PanelKinds(evs, i) ==
    IF i > Len(evs) THEN <<>>
    ELSE LET q == EventKind(evs[i]) IN
         (IF q.k = "bl" THEN <<>> ELSE <<q>>) \o PanelKinds(evs, i + 1)

Settle == [k |-> "delay", v |-> 1]

InitOrder ==
    << [k |-> "rst", v |-> 1], Settle,
       [k |-> "rst", v |-> 0], Settle,
       [k |-> "rst", v |-> 1], Settle,
       [k |-> "cmd", v |-> ST7789_SWRESET], Settle,
       [k |-> "cmd", v |-> ST7789_SLPOUT], Settle,
       [k |-> "cmd", v |-> ST7789_MADCTL], [k |-> "data", v |-> 0],
       [k |-> "cmd", v |-> ST7789_COLMOD], [k |-> "data", v |-> 0],
       [k |-> "cmd", v |-> ST7789_NORON], Settle,
       [k |-> "cmd", v |-> ST7789_INVON], Settle,
       [k |-> "cmd", v |-> ST7789_DISPON], Settle >>

IsCmd(e, c) ==
    IsTransfer(e) /\ e.dc = DC_COMMAND /\ SampledByte(e.bits) = c

Programmed(evs, reg, i) ==
    \E j \in 1..(i - 2) :
        /\ IsCmd(evs[j], reg)
        /\ IsTransfer(evs[j + 1]) /\ evs[j + 1].dc = DC_DATA

----------------------------------------------------------------------------
(* Properties of spiWriteByte                                              *)

(* The line events of spiWriteByte inside one writeCommand or writeData:   *)
(* what lies between the write that selects the panel and the write that   *)
(* deselects it.                                                           *)
ByteEvents(evs) == SubSeq(evs, 3, Len(evs) - 1)

(* The level of the clock line before event i of evs, low before the first *)
RECURSIVE ClockBefore(_, _)
ClockBefore(evs, i) ==
    IF i <= 1 THEN 0
    ELSE IF evs[i - 1].pin = "SCLK" THEN evs[i - 1].level
    ELSE ClockBefore(evs, i - 1)

(* The data line's level at event i of evs, if event i leaves it alone *)
RECURSIVE DataAt(_, _)
DataAt(evs, i) ==
    IF i < 1 THEN Unknown
    ELSE IF evs[i].pin = "SDATA" THEN evs[i].level
    ELSE DataAt(evs, i - 1)

RisingEdges(evs) ==
    {i \in DOMAIN evs :
        evs[i].pin = "SCLK" /\ evs[i].level = 1 /\ ClockBefore(evs, i) = 0}

BitOf(b, k) == (b \div Pow2(k)) % 2

(* C21: for every byte b, spiWriteByte makes 8 clock cycles, each a write  *)
(* of the clock low, a write of the data line and a write of the clock     *)
(* high; the data line at the k-th rising edge is bit 8 - k of b, and no   *)
(* write of the data line happens while the clock is high.                 *)
C21_BitBangedByte ==
    link_in # NoInput =>
        LET evs == ByteEvents(bb) IN
        /\ Len(evs) = 24
        /\ \A c \in 0..7 :
              /\ evs[3 * c + 1].pin = "SCLK" /\ evs[3 * c + 1].level = 0
              /\ evs[3 * c + 2].pin = "SDATA"
              /\ evs[3 * c + 3].pin = "SCLK" /\ evs[3 * c + 3].level = 1
        /\ RisingEdges(evs) = {3 * c + 3 : c \in 0..7}
        /\ \A c \in 0..7 :
              DataAt(evs, 3 * c + 3) = BitOf(link_in.byte, 7 - c)
        /\ \A i \in DOMAIN evs :
              evs[i].pin = "SDATA" => ClockBefore(evs, i) = 0

C21_Witness ==
    /\ link_in # NoInput
    /\ link_in.op = "data" /\ link_in.byte = 165
    /\ Len(bb) = 27
    /\ Cardinality(RisingEdges(ByteEvents(bb))) = 8
    /\ [c \in 1..8 |-> DataAt(ByteEvents(bb), 3 * c)]
          = <<1, 0, 1, 0, 0, 1, 0, 1>>

----------------------------------------------------------------------------
(* Properties of the supervisor and its child                              *)

(* C22: fork is called only when no child of the supervisor exists, so at  *)
(* most one is alive: a child comes into being only in the fork step, and  *)
(* between two forks waitpid has returned the first child's pid or -1 and  *)
(* taken its zombie away; a child ceases to exist only there.              *)
C22_OneChild ==
    /\ [](/\ pc = "fork" => child = "none"
          /\ child # "none" =>
                /\ live_pid > 0
                /\ pc \in {"store_pid", "waitpid"}
                /\ pc = "store_pid" => fork_ret = live_pid
                /\ pc = "waitpid" => child_pid = live_pid
          /\ child = "none" => live_pid = 0)
    /\ [][/\ (child' = "running" /\ child # "running") =>
                /\ pc = "fork" /\ child = "none"
                /\ live_pid' # child_pid
                /\ child_pid > 0 => result \in {child_pid, -1}
          /\ (child # "none" /\ child' = "none") =>
                (pc = "waitpid" /\ child = "zombie")
         ]_vars

C22_Witness ==
    /\ pc = "waitpid"
    /\ child = "running"
    /\ live_pid = 2
    /\ child_pid = 2
    /\ result = 1
    /\ restart_count = 1

(* The first run of signal_handler: running goes from true to false.       *)
StopArrives == running /\ ~running'

(* C23: when the stop-signal handler runs and sends SIGTERM to child_pid,   *)
(* that pid is the pid of a child that exists (not of one that waitpid has  *)
(* already reaped).                                                        *)
C23_KillOnlyLiveChild ==
    [][(StopArrives /\ child_pid > 0) =>
           (child # "none" /\ live_pid = child_pid)]_vars

(* C24: once a stop signal has been delivered to the supervisor, the       *)
(* supervisor eventually reaches STOPPED, given that a child that receives *)
(* SIGTERM terminates.                                                     *)
C24_StopLeadsToStopped == (~running) ~> Stopped

(* C25: in STOPPED, whichever way it was reached, no child of the         *)
(* supervisor exists; while a child exists after a stop request the        *)
(* supervisor is at waitpid or before it, and cleanup_gpio, which releases *)
(* the GPIO lines, runs with no child in existence.                        *)
C25_StoppedWithoutChild ==
    /\ [](/\ Stopped => (child = "none" /\ live_pid = 0)
          /\ pc = "cleanup" => child = "none"
          /\ (~running /\ child # "none") => pc \in {"store_pid", "waitpid"}
          /\ child # "none" => gpio_exported)
    /\ [][/\ (gpio_exported /\ ~gpio_exported') =>
                (pc = "cleanup" /\ child = "none")
          /\ (~Stopped /\ Stopped') => child = "none"
         ]_vars

C25_Witness ==
    /\ pc = "done"
    /\ ~running
    /\ child_sigterm
    /\ child = "none"
    /\ result = child_pid
    /\ result > 0
    /\ ~gpio_exported

(* display_error_screen was called and returned at line 145 because the   *)
(* SPI device could not be opened.                                         *)
VisualSkipped ==
    /\ error_calls > 0
    /\ panel_at_error = NoPanel
    /\ pc # "err_open"

(* C26 as stated: when the supervisor cannot open the SPI device for its   *)
(* visual, nothing of the visual is issued, the supervisor goes on, and    *)
(* the restart proceeds: the cool-down is followed by the loop head, as    *)
(* after a recovery.                                                       *)
C26_RestartProceeds ==
    [][/\ (pc = "err_open" /\ pc' = "sleep10") =>
             (trace' = trace /\ panel' = panel)
       /\ (VisualSkipped /\ pc = "sleep10" /\ pc' # pc) => pc' = "loop"
      ]_vars

(* C26, amended: when display_error_screen cannot open the SPI device it   *)
(* returns having issued no reset-line write, command or data byte; the    *)
(* supervisor goes on as it does after a visual that was shown: it sleeps  *)
(* the breaker's cool-down, releases the GPIO lines and returns 0, and     *)
(* forks no further child.                                                 *)
C26_SkipThenStop ==
    /\ [](VisualSkipped =>
             /\ pc \in {"sleep10", "cleanup", "done"}
             /\ spi_fd = -1
             /\ child = "none"
             /\ TooManyRestarts(restart_count)
             /\ trace = reset_display_hardware
             /\ \A k \in DOMAIN trace : ~IsTransfer(trace[k]))
    /\ [][/\ (pc = "err_open" /\ pc' = "sleep10") =>
                /\ spi_fd' = -1
                /\ trace' = trace /\ panel' = panel
                /\ wire' = wire /\ framebuffer' = framebuffer
                /\ running' = running
          /\ VisualSkipped =>
                /\ trace' = trace /\ panel' = panel
                /\ child' = "none" /\ fork_ret' = fork_ret
                /\ (pc = "sleep10" /\ pc' # pc) =>
                      (pc' = "cleanup" /\ TimePassed(CircuitSleep))
                /\ (pc = "cleanup" /\ pc' # pc) => pc' = "done"
         ]_vars

C26_Witness ==
    /\ VisualSkipped
    /\ pc = "done"
    /\ running
    /\ restart_count = max_restarts + 1
    /\ panel.state = "RESET_PENDING"

----------------------------------------------------------------------------
(* Properties of the renderer                                              *)

(* A refresh is the painting of the surface followed by pushFramebuffer.   *)
Refreshing == r_pc \in {"paint", "push"}

(* C27: in an iteration of the loop the renderer refreshes exactly if the  *)
(* second it read in that iteration differs from the second of the last    *)
(* refresh, or no refresh was made yet (as in the first iteration); the    *)
(* refresh is made for the second that was read, and, the wall clock not   *)
(* running backwards, no second is refreshed twice.                        *)
C27_RefreshOnSecondChange ==
    /\ [](/\ \A i \in DOMAIN refreshes, j \in DOMAIN refreshes :
                i < j => refreshes[i] < refreshes[j]
          /\ Refreshing =>
                (refreshes # <<>> /\ refreshes[Len(refreshes)] = r_now)
          /\ refreshes # <<>> => last_second = refreshes[Len(refreshes)]
          /\ r_pc = "compare" => r_now > 0)
    /\ [][/\ (r_pc = "compare" /\ r_pc' # r_pc) =>
                IF refreshes = <<>> \/ r_now # refreshes[Len(refreshes)]
                THEN r_pc' = "paint" /\ refreshes' = Append(refreshes, r_now)
                ELSE r_pc' = "sleep" /\ refreshes' = refreshes
          /\ (Refreshing' /\ ~Refreshing) => r_pc = "compare"
          /\ refreshes' # refreshes => r_pc = "compare"
          /\ (r_pc = "paint" /\ r_pc' # r_pc) => r_pc' = "push"
         ]_vars

C27_Witness ==
    /\ r_pc = "sleep"
    /\ refreshes = <<Epoch, Epoch + 2>>
    /\ r_now = Epoch + 2
    /\ now = Epoch + 2
    /\ r_running
    /\ panel.n = 2 * DISPLAY_WIDTH * DISPLAY_HEIGHT

FullSurface == 2 * DISPLAY_WIDTH * DISPLAY_HEIGHT

====
